---- MODULE Spec2Model ----
(***************************************************************************)
(* Model of the JRDB fixed-width record parser                             *)
(* (src/cloud_functions/gcs_to_bq/parser.py, class JRDBParser).            *)
(*                                                                         *)
(* Text is a sequence of one-character tokens.  A Python value is a tagged *)
(* record; the outcome of a call is a record holding the exception that    *)
(* left the call (or ""), the value returned, and the log records the call *)
(* emitted.  try/except is modelled by inspecting the exc field.           *)
(***************************************************************************)
EXTENDS Integers, Sequences, FiniteSets, TLC

VARIABLES
    call,    \* the call in progress, if any
    result,  \* its outcome
    tables,  \* the class attributes of JRDBParser: the code tables
    prev,    \* the outcome of the call before, when the call repeats it
    cloud,   \* what the storage and warehouse clients do during the call
    loads,   \* the invocations of load_to_bigquery the call has made
    threads, \* the decoder invocations of a deployment that runs them in parallel
    up,      \* the call of the uploader in progress, step by step
    bq       \* the warehouse and the invocations of load_to_bigquery in flight

vars == <<call, result, tables, prev, cloud, loads, threads, up, bq>>

(***************************************************************************)
(* Characters                                                              *)
(***************************************************************************)
\* U+3000 IDEOGRAPHIC SPACE, written '　' in the source
FWS == "U+3000"

NL == "\n"

Digits == {"0", "1", "2", "3", "4", "5", "6", "7", "8", "9"}

\* the characters str.strip() removes, among those the model uses
Whitespace == {" ", NL, FWS}

DigitVal(c) ==
    CASE c = "0" -> 0 [] c = "1" -> 1 [] c = "2" -> 2 [] c = "3" -> 3
      [] c = "4" -> 4 [] c = "5" -> 5 [] c = "6" -> 6 [] c = "7" -> 7
      [] c = "8" -> 8 [] c = "9" -> 9

Min(a, b) == IF a < b THEN a ELSE b

Max(a, b) == IF a > b THEN a ELSE b

\* n copies of character c
Pad(c, n) == [i \in 1..n |-> c]

(***************************************************************************)
(* Python str operations                                                   *)
(***************************************************************************)
\* s[a:b] with 0 <= a <= b: out-of-range bounds are clipped, never an error
Slice(s, a, b) == SubSeq(s, a + 1, Min(b, Len(s)))

\* s[a:]
SliceFrom(s, a) == SubSeq(s, a + 1, Len(s))

\* s.strip()
Strip(s) ==
    IF \A i \in 1..Len(s) : s[i] \in Whitespace THEN <<>>
    ELSE LET lo == CHOOSE i \in 1..Len(s) :
                       s[i] \notin Whitespace /\ \A j \in 1..(i - 1) : s[j] \in Whitespace
             hi == CHOOSE i \in 1..Len(s) :
                       s[i] \notin Whitespace /\ \A j \in (i + 1)..Len(s) : s[j] \in Whitespace
         IN  SubSeq(s, lo, hi)

\* s.replace(c, '')
Remove(s, c) == SelectSeq(s, LAMBDA x : x # c)

\* s.split('\n'): always at least one piece
Split(s) ==
    LET brk == {i \in 1..Len(s) : s[i] = NL}
        n   == Cardinality(brk)
        \* position of the k-th line break; 0 and Len(s)+1 are the two ends
        pos(k) == IF k = 0 THEN 0
                  ELSE IF k = n + 1 THEN Len(s) + 1
                  ELSE CHOOSE i \in brk : Cardinality({j \in brk : j < i}) = k - 1
    IN  [k \in 1..(n + 1) |-> SubSeq(s, pos(k - 1) + 1, pos(k) - 1)]

\* '\n'.join(ls)
RECURSIVE Join(_)
Join(ls) ==
    IF ls = <<>> THEN <<>>
    ELSE IF Len(ls) = 1 THEN ls[1]
    ELSE ls[1] \o <<NL>> \o Join(Tail(ls))

\* s.upper() on the letters the model uses
UpperChar(c) ==
    CASE c = "a" -> "A" [] c = "b" -> "B" [] c = "z" -> "Z"
      [] c = "c" -> "C" [] c = "e" -> "E" [] c = "s" -> "S" [] c = "v" -> "V"
      [] c = "U+017F" -> "S"
      [] OTHER -> c

Upper(s) == [i \in 1..Len(s) |-> UpperChar(s[i])]

(***************************************************************************)
(* Python values and call outcomes                                         *)
(***************************************************************************)
PyNone == [t |-> "None", v |-> 0, e |-> 0]

PyInt(n) == [t |-> "int", v |-> n, e |-> 0]

\* the float m / 10^e, normalised: e = 0 or m not a multiple of 10
PyFloat(m, e) == [t |-> "float", v |-> m, e |-> e]

PyStr(s) == [t |-> "str", v |-> s, e |-> 0]

\* a dict; d is a TLA+ record of the fields the model follows
PyDict(d) == [t |-> "dict", v |-> d, e |-> 0]

\* a call that returned v
Ok(v) == [exc |-> "", msg |-> "", ret |-> v, log |-> <<>>]

\* a call left by exception x
Raise(x, m) == [exc |-> x, msg |-> m, ret |-> PyNone, log |-> <<>>]

\* the same outcome after logger.<level>(...)
Logged(out, level) == [out EXCEPT !.log = Append(@, level)]

RECURSIVE DecVal(_)
DecVal(ds) ==
    IF ds = <<>> THEN 0
    ELSE DecVal(SubSeq(ds, 1, Len(ds) - 1)) * 10 + DigitVal(ds[Len(ds)])

\* a run of digits in which single underscores may separate digits
IsDigitGroup(b) ==
    /\ Len(b) > 0
    /\ b[1] \in Digits
    /\ b[Len(b)] \in Digits
    /\ \A i \in 1..Len(b) : b[i] \in Digits \cup {"_"}
    /\ \A i \in 1..(Len(b) - 1) : ~(b[i] = "_" /\ b[i + 1] = "_")

HasSign(t) == Len(t) > 0 /\ t[1] \in {"+", "-"}

Unsigned(t) == IF HasSign(t) THEN Tail(t) ELSE t

SignOf(t) == IF HasSign(t) /\ t[1] = "-" THEN -1 ELSE 1

\* int(s), base 10: surrounding whitespace ignored, optional sign
IntOf(t, b) ==
    IF IsDigitGroup(b)
    THEN Ok(PyInt(SignOf(t) * DecVal(Remove(b, "_"))))
    ELSE Raise("ValueError", "invalid literal for int()")

IntOfStripped(t) == IntOf(t, Unsigned(t))

int(s) == IntOfStripped(Strip(s))

RECURSIVE Normalise(_, _)
Normalise(m, e) ==
    IF e > 0 /\ m % 10 = 0 THEN Normalise(m \div 10, e - 1) ELSE PyFloat(m, e)

\* float(s) for decimal literals without exponent (the model's characters
\* hold no letter of "e", "inf" or "nan")
\* t the stripped text, dots the positions of "." in its unsigned part,
\* ip and fp the parts before and after the first of them
FloatOfParts(t, dots, ip, fp) ==
    IF /\ Cardinality(dots) <= 1
       /\ ip # <<>> \/ fp # <<>>
       /\ ip = <<>> \/ IsDigitGroup(ip)
       /\ fp = <<>> \/ IsDigitGroup(fp)
    THEN Ok(Normalise(SignOf(t) * DecVal(Remove(ip, "_") \o Remove(fp, "_")),
                      Len(Remove(fp, "_"))))
    ELSE Raise("ValueError", "could not convert string to float")

FloatOfDot(t, b, dots, dot) ==
    FloatOfParts(t, dots, SubSeq(b, 1, dot - 1), SubSeq(b, dot + 1, Len(b)))

FloatOfDots(t, b, dots) ==
    FloatOfDot(t, b, dots, IF dots = {} THEN Len(b) + 1 ELSE CHOOSE i \in dots : TRUE)

FloatOfUnsigned(t, b) == FloatOfDots(t, b, {i \in 1..Len(b) : b[i] = "."})

FloatOfStripped(t) == FloatOfUnsigned(t, Unsigned(t))

float(s) == FloatOfStripped(Strip(s))

\* value.strip(): AttributeError when value is no str
strip(value) ==
    IF value.t = "str" THEN Ok(PyStr(Strip(value.v))) ELSE Raise("AttributeError", "no attribute strip")

\* except (ValueError, AttributeError): return default
ExceptValueOrAttribute(body, default) ==
    IF body.exc \in {"ValueError", "AttributeError"} THEN Ok(default) ELSE body

\* the try block of safe_int after cleaned = value.strip()
SafeIntBody(cleaned, default) ==
    IF cleaned.exc # "" THEN cleaned
    ELSE IF cleaned.ret.v = <<>> THEN Ok(default)
    ELSE int(cleaned.ret.v)

\* the try block of safe_float after cleaned = value.strip()
SafeFloatBody(cleaned, default) ==
    IF cleaned.exc # "" THEN cleaned
    ELSE IF cleaned.ret.v = <<>> THEN Ok(default)
    ELSE float(cleaned.ret.v)

\* safe_int answering None, whatever the default, for an invalid text
safe_int_none_on_invalid(value, default) ==
    ExceptValueOrAttribute(SafeIntBody(strip(value), default), PyNone)

safe_int(value, default) ==
    ExceptValueOrAttribute(SafeIntBody(strip(value), default), default)

safe_float(value, default) ==
    ExceptValueOrAttribute(SafeFloatBody(strip(value), default), default)

\* safe_int(text) with the default default, the value alone
SafeInt(s) == safe_int(PyStr(s), PyNone).ret

(***************************************************************************)
(* Date normalisation                                                      *)
(***************************************************************************)
NonZero == Digits \ {"0"}

\* the ways the month pattern 1[0-2]|0[1-9]|[1-9] matches at the head of r,
\* in the order the regular expression tries them: <<length, value>>
MonthAlts(r) ==
    (IF Len(r) >= 2 /\ r[1] = "1" /\ r[2] \in {"0", "1", "2"}
     THEN <<<<2, 10 + DigitVal(r[2])>>>> ELSE <<>>)
    \o (IF Len(r) >= 2 /\ r[1] = "0" /\ r[2] \in NonZero
        THEN <<<<2, DigitVal(r[2])>>>> ELSE <<>>)
    \o (IF Len(r) >= 1 /\ r[1] \in NonZero
        THEN <<<<1, DigitVal(r[1])>>>> ELSE <<>>)

\* the same for the day pattern 3[0-1]|[1-2]\d|0[1-9]|[1-9]| [1-9]
DayAlts(r) ==
    (IF Len(r) >= 2 /\ r[1] = "3" /\ r[2] \in {"0", "1"}
     THEN <<<<2, 30 + DigitVal(r[2])>>>> ELSE <<>>)
    \o (IF Len(r) >= 2 /\ r[1] \in {"1", "2"} /\ r[2] \in Digits
        THEN <<<<2, 10 * DigitVal(r[1]) + DigitVal(r[2])>>>> ELSE <<>>)
    \o (IF Len(r) >= 2 /\ r[1] = "0" /\ r[2] \in NonZero
        THEN <<<<2, DigitVal(r[2])>>>> ELSE <<>>)
    \o (IF Len(r) >= 1 /\ r[1] \in NonZero
        THEN <<<<1, DigitVal(r[1])>>>> ELSE <<>>)
    \o (IF Len(r) >= 2 /\ r[1] = " " /\ r[2] \in NonZero
        THEN <<<<2, DigitVal(r[2])>>>> ELSE <<>>)

IsLeap(y) == y % 4 = 0 /\ (y % 100 # 0 \/ y % 400 = 0)

DaysIn(y, m) ==
    IF m = 2 THEN (IF IsLeap(y) THEN 29 ELSE 28)
    ELSE IF m \in {4, 6, 9, 11} THEN 30
    ELSE 31

DigitChar(n) == CHOOSE c \in Digits : DigitVal(c) = n

TwoDigits(n) == <<DigitChar(n \div 10), DigitChar(n % 10)>>

RECURSIVE DropZeros(_)
DropZeros(ds) == IF ds # <<>> /\ ds[1] = "0" THEN DropZeros(Tail(ds)) ELSE ds

\* the date of year text yy, month <<length, value>> m and day d, r being
\* the text after the year
DateOf(yy, r, m, d, y) ==
    IF m[1] + d[1] # Len(r)
    THEN Raise("ValueError", "unconverted data remains")
    ELSE IF y < 1
    THEN Raise("ValueError", "year is out of range")
    ELSE IF d[2] > DaysIn(y, m[2])
    THEN Raise("ValueError", "day is out of range for month")
    ELSE Ok(PyStr(DropZeros(yy) \o <<"-">> \o TwoDigits(m[2])
                  \o <<"-">> \o TwoDigits(d[2])))

\* what is left of r after the month alternative m
AfterMonth(r, m) == SubSeq(r, m[1] + 1, Len(r))

\* found: the month alternatives after which a day matches
FirstMatch(t, yy, r, ms, found) ==
    IF Len(t) < 4 \/ \E i \in 1..4 : t[i] \notin Digits \/ found = {}
    THEN Raise("ValueError", "does not match format")
    ELSE LET i == CHOOSE k \in found : \A j \in found : k <= j
         IN  DateOf(yy, r, ms[i], DayAlts(AfterMonth(r, ms[i]))[1], DecVal(yy))

MatchMonths(t, yy, r, ms) ==
    FirstMatch(t, yy, r, ms,
               {i \in 1..Len(ms) : DayAlts(AfterMonth(r, ms[i])) # <<>>})

MatchYear(t, yy, r) == MatchMonths(t, yy, r, MonthAlts(r))

\* datetime.strptime(t, '%Y%m%d').strftime('%Y-%m-%d'): the first match of
\* the pattern decides, text left over after it is an error, and the C
\* library of the runtime writes a year below 1000 without leading zeros
strptime_strftime(t) == MatchYear(t, SubSeq(t, 1, 4), SubSeq(t, 5, Len(t)))

\* except Exception as e: logger.warning(...); return None
ExceptWarn(body) ==
    IF body.exc # "" THEN Logged(Ok(PyNone), "WARNING") ELSE body

parse_date(date_str) ==
    ExceptWarn(IF date_str.t # "str" \/ date_str.v = <<>> \/ Strip(date_str.v) = <<>>
               THEN Ok(PyNone)
               ELSE strptime_strftime(Strip(date_str.v)))

(***************************************************************************)
(* Record-key decoder                                                      *)
(***************************************************************************)
\* a key decoder that resolves every year code into the 1900s
RaceKeyResult_1900s(race_key, year, kai, day, race_num) ==
    IF year.exc # "" THEN year
    ELSE IF kai.exc # "" THEN kai
    ELSE IF day.exc # "" THEN day
    ELSE IF race_num.exc # "" THEN race_num
    ELSE Ok([race_id     |-> race_key,
             venue_code  |-> Slice(race_key, 0, 2),
             year        |-> year.ret.v + 1900,
             kai         |-> kai.ret.v,
             day         |-> day.ret.v,
             race_number |-> race_num.ret.v])

\* the result for a key of 8 characters, given the outcomes of the four int()
RaceKeyResult(race_key, year, kai, day, race_num) ==
    IF year.exc # "" THEN year
    ELSE IF kai.exc # "" THEN kai
    ELSE IF day.exc # "" THEN day
    ELSE IF race_num.exc # "" THEN race_num
    ELSE Ok([race_id     |-> race_key,
             venue_code  |-> Slice(race_key, 0, 2),
             year        |-> IF year.ret.v >= 0 /\ year.ret.v <= 50
                             THEN year.ret.v + 2000
                             ELSE year.ret.v + 1900,
             kai         |-> kai.ret.v,
             day         |-> day.ret.v,
             race_number |-> race_num.ret.v])

\* the fields of a key of 8 characters
RaceKeyFields(race_key) ==
    RaceKeyResult(race_key, int(Slice(race_key, 2, 4)), int(Slice(race_key, 4, 5)),
                  int(Slice(race_key, 5, 6)), int(Slice(race_key, 6, 8)))

\* parse_race_id rejecting short keys only
parse_race_id_short_only(race_key) ==
    IF Len(race_key) < 8 THEN Raise("ValueError", "Invalid race key length")
    ELSE RaceKeyFields(race_key)

parse_race_id(race_key) ==
    IF Len(race_key) # 8 THEN Raise("ValueError", "Invalid race key length")
    ELSE RaceKeyFields(race_key)

(***************************************************************************)
(* Code tables                                                             *)
(***************************************************************************)
\* the class attribute VENUE_CODE_MAP as the class statement builds it; the
\* names are given by their code points
VenueCodeTable ==
    [code \in {<<"0", "1">>, <<"0", "2">>, <<"0", "3">>, <<"0", "4">>, <<"0", "5">>,
               <<"0", "6">>, <<"0", "7">>, <<"0", "8">>, <<"0", "9">>, <<"1", "0">>} |->
        CASE code = <<"0", "1">> -> <<"U+672D", "U+5E4C">>
          [] code = <<"0", "2">> -> <<"U+51FD", "U+9928">>
          [] code = <<"0", "3">> -> <<"U+798F", "U+5CF6">>
          [] code = <<"0", "4">> -> <<"U+65B0", "U+6F5F">>
          [] code = <<"0", "5">> -> <<"U+6771", "U+4EAC">>
          [] code = <<"0", "6">> -> <<"U+4E2D", "U+5C71">>
          [] code = <<"0", "7">> -> <<"U+4E2D", "U+4EAC">>
          [] code = <<"0", "8">> -> <<"U+4EAC", "U+90FD">>
          [] code = <<"0", "9">> -> <<"U+962A", "U+795E">>
          [] code = <<"1", "0">> -> <<"U+5C0F", "U+5009">>]

\* the class attribute TRACK_CONDITION_MAP; the labels by their code points
TrackConditionTable ==
    [code \in {<<a, b>> : a \in {"1", "2", "3", "4"}, b \in {"0", "1", "2"}}
               \cup {<<a>> : a \in {"1", "2", "3", "4"}} |->
        (IF Len(code) = 1 \/ code[2] = "0" THEN <<>>
         ELSE IF code[2] = "1" THEN <<"U+901F">> ELSE <<"U+9045">>)
        \o (CASE code[1] = "1" -> <<"U+826F">>
              [] code[1] = "2" -> <<"U+7A0D", "U+91CD">>
              [] code[1] = "3" -> <<"U+91CD">>
              [] code[1] = "4" -> <<"U+4E0D", "U+826F">>)]

\* the class attributes as the class statement builds them
ClassTables ==
    [VENUE_CODE_MAP |-> VenueCodeTable, TRACK_CONDITION_MAP |-> TrackConditionTable]

\* JRDBParser.TRACK_CONDITION_MAP.get(code, None)
TRACK_CONDITION_MAP(code) ==
    IF code \in DOMAIN tables.TRACK_CONDITION_MAP
    THEN PyStr(tables.TRACK_CONDITION_MAP[code])
    ELSE PyNone

\* JRDBParser.VENUE_CODE_MAP.get(code, ''), read from the class attribute
VENUE_CODE_MAP(code) ==
    IF code \in DOMAIN tables.VENUE_CODE_MAP THEN tables.VENUE_CODE_MAP[code]
    ELSE <<>>

(***************************************************************************)
(* The clock: datetime.utcnow() read twice by every decoder that succeeds  *)
(***************************************************************************)
\* a clock is [t |-> time of the first read, dt |-> time between two reads]
Later(clk, n) == [clk EXCEPT !.t = @ + n * clk.dt]

\* x if x else None
StrOrNone(s) == IF s = <<>> THEN PyNone ELSE PyStr(s)

\* a scaling that keeps a raw zero as 0.0
Tenths_zero_kept(raw) == IF raw.t = "int" THEN Normalise(raw.v, 1) ELSE PyNone

\* raw / 10.0 if raw else None
Tenths(raw) == IF raw.t = "int" /\ raw.v # 0 THEN Normalise(raw.v, 1) ELSE PyNone

(***************************************************************************)
(* Per-format line decoders.  Each is try: <body> except Exception: log an *)
(* error and return None.  Of the fields of a record the model follows the *)
(* keys, the names and the fields the checked properties speak about; the  *)
(* remaining fields are built from the same total primitives (slices,      *)
(* strip, safe_int, safe_float, table lookups with a default).             *)
(***************************************************************************)
BAA_MIN_LEN == 90

KYF_MIN_LEN == 170

SEC_MIN_LEN == 200

UKC_MIN_LEN == 160

KKA_MIN_LEN == 280

\* a minimum length that is one character too low
KAA_MIN_LEN_low == 40 - 1

KAA_MIN_LEN == 40

\* a decoder with no except clause
NoExcept(body) == body

\* except Exception as e: logger.error(...); return None
ExceptException(body) ==
    IF body.exc # "" THEN Logged([Ok(PyNone) EXCEPT !.log = body.log], "ERROR")
    ELSE body

\* return {...}, after the log records of the calls that built the fields
Record(log, d) == [Ok(PyDict(d)) EXCEPT !.log = log]

\* logger.warning("... line too short"); return None
TooShort == Logged(Ok(PyNone), "WARNING")

\* a rule that looks at the race condition before the grade code
race_class_condition_first(grade_code, race_condition) ==
    IF race_condition = <<"O", "P">> THEN <<"O", "p", "e", "n">>
    ELSE IF grade_code = <<"1">> THEN <<"G", "1">>
    ELSE IF grade_code = <<"2">> THEN <<"G", "2">>
    ELSE IF grade_code = <<"3">> THEN <<"G", "3">>
    ELSE IF grade_code = <<"5">> THEN <<"L", "i", "s", "t", "e", "d">>
    ELSE race_condition

race_class_of(grade_code, race_condition) ==
    IF grade_code = <<"1">> THEN <<"G", "1">>
    ELSE IF grade_code = <<"2">> THEN <<"G", "2">>
    ELSE IF grade_code = <<"3">> THEN <<"G", "3">>
    ELSE IF grade_code = <<"5">> THEN <<"L", "i", "s", "t", "e", "d">>
    ELSE IF race_condition = <<"O", "P">> THEN <<"O", "p", "e", "n">>
    ELSE race_condition

BaaRecord(line, clk, race_key, race_info, race_date) ==
    IF race_info.exc # "" THEN race_info
    ELSE Record(race_date.log,
             [race_id     |-> race_key,
              race_date   |-> race_date.ret,
              venue_code  |-> race_info.ret.venue_code,
              venue_name  |-> VENUE_CODE_MAP(race_info.ret.venue_code),
              race_number |-> PyInt(race_info.ret.race_number),
              race_name   |-> IF Len(line) > 86
                              THEN Strip(Slice(line, 36, 86))
                              ELSE Strip(SliceFrom(line, 36)),
              distance    |-> SafeInt(Slice(line, 20, 24)),
              race_class  |-> race_class_of(Strip(Slice(line, 35, 36)),
                                            Strip(Slice(line, 29, 31))),
              created_at  |-> clk.t,
              updated_at  |-> clk.t + clk.dt])

BaaKeyed(line, clk, race_key) ==
    BaaRecord(line, clk, race_key, parse_race_id(race_key),
              parse_date(PyStr(Slice(line, 8, 16))))

parse_baa_line(line, clk) ==
    ExceptException(
        IF Len(line) < BAA_MIN_LEN THEN TooShort
        ELSE BaaKeyed(line, clk, Strip(Slice(line, 0, 8))))

parse_kyf_line(line, clk) ==
    ExceptException(
        IF Len(line) < KYF_MIN_LEN THEN TooShort
        ELSE Ok(PyDict(
            [race_id        |-> Strip(Slice(line, 0, 8)),
             horse_number   |-> SafeInt(Slice(line, 8, 10)),
             horse_id       |-> Strip(Slice(line, 10, 18)),
             horse_name     |-> Strip(Remove(Strip(Slice(line, 18, 36)), FWS)),
             jockey_name    |-> IF Len(line) > 159
                                THEN StrOrNone(Remove(Strip(Slice(line, 153, 159)), FWS))
                                ELSE PyNone,
             weight_carried |-> IF Len(line) > 162
                                THEN Tenths(SafeInt(Slice(line, 159, 162)))
                                ELSE PyNone,
             created_at     |-> clk.t,
             updated_at     |-> clk.t + clk.dt])))

SecRecord(line, clk, race_date) ==
    Record(race_date.log,
        [race_id        |-> Strip(Slice(line, 0, 8)),
         horse_number   |-> SafeInt(Slice(line, 8, 10)),
         horse_id       |-> Strip(Slice(line, 10, 18)),
         race_date      |-> race_date.ret,
         horse_name     |-> StrOrNone(Strip(Remove(Strip(Slice(line, 26, 44)), FWS))),
         finish_time    |-> Tenths(SafeInt(Slice(line, 96, 100))),
         weight_carried |-> Tenths(SafeInt(Slice(line, 100, 103))),
         track_condition |-> TRACK_CONDITION_MAP(Slice(line, 51, 53)),
         winner_time_diff |-> Tenths(IF Len(line) > 193
                                     THEN SafeInt(Slice(line, 190, 193))
                                     ELSE PyNone),
         front_3f_time  |-> Tenths(IF Len(line) > 196
                                   THEN SafeInt(Slice(line, 193, 196))
                                   ELSE PyNone),
         last_3f_time   |-> Tenths(IF Len(line) > 199
                                   THEN SafeInt(Slice(line, 196, 199))
                                   ELSE PyNone),
         created_at     |-> clk.t,
         updated_at     |-> clk.t + clk.dt])

parse_sec_line(line, clk) ==
    ExceptException(
        IF Len(line) < SEC_MIN_LEN THEN TooShort
        ELSE SecRecord(line, clk, parse_date(PyStr(Strip(Slice(line, 18, 26))))))

UkcRecord(line, clk, birth_date, data_date) ==
    Record(birth_date.log \o data_date.log,
        [horse_id   |-> Strip(Slice(line, 0, 8)),
         horse_name |-> StrOrNone(Strip(Remove(Strip(Slice(line, 8, 26)), FWS))),
         birth_date |-> birth_date.ret,
         data_date  |-> data_date.ret,
         created_at |-> clk.t,
         updated_at |-> clk.t + clk.dt])

parse_ukc_line(line, clk) ==
    ExceptException(
        IF Len(line) < UKC_MIN_LEN THEN TooShort
        ELSE UkcRecord(line, clk,
                 parse_date(PyStr(Strip(Slice(line, 85, 93)))),
                 parse_date(PyStr(IF Len(line) > 160
                                  THEN Strip(Slice(line, 152, 160))
                                  ELSE <<>>))))

\* a group decoder that nulls the whole group when one sub-span is malformed
parse_zz9x4_all_or_none(s) ==
    IF Len(s) < 12 \/ \E i \in 0..3 : SafeInt(Slice(s, 3 * i, 3 * i + 3)) = PyNone
    THEN [win |-> PyNone, place |-> PyNone, show |-> PyNone, out |-> PyNone]
    ELSE [win   |-> SafeInt(Slice(s, 0, 3)),
          place |-> SafeInt(Slice(s, 3, 6)),
          show  |-> SafeInt(Slice(s, 6, 9)),
          out   |-> SafeInt(Slice(s, 9, 12))]

parse_zz9x4(s) ==
    IF Len(s) < 12
    THEN [win |-> PyNone, place |-> PyNone, show |-> PyNone, out |-> PyNone]
    ELSE [win   |-> SafeInt(Slice(s, 0, 3)),
          place |-> SafeInt(Slice(s, 3, 6)),
          show  |-> SafeInt(Slice(s, 6, 9)),
          out   |-> SafeInt(Slice(s, 9, 12))]

\* year is int(year_code), evaluated for the year and never used after
KkaRecord(line, clk, race_key, year, jra) ==
    IF year.exc # "" THEN year
    ELSE Ok(PyDict(
             [race_id      |-> race_key,
              horse_number |-> SafeInt(Slice(line, 8, 10)),
              jra_win      |-> jra.win,
              jra_place    |-> jra.place,
              jra_show     |-> jra.show,
              jra_out      |-> jra.out,
              created_at   |-> clk.t,
              updated_at   |-> clk.t + clk.dt]))

KkaKeyed(line, clk, race_key) ==
    KkaRecord(line, clk, race_key, int(Slice(race_key, 2, 4)),
              parse_zz9x4(Slice(line, 10, 22)))

parse_kka_line(line, clk) ==
    ExceptException(
        IF Len(line) < KKA_MIN_LEN THEN TooShort
        ELSE KkaKeyed(line, clk, Strip(Slice(line, 0, 8))))

\* str(x) inside an f-string, for None and for the integers that
\* safe_int yields from one character (int('-'), int('_') are invalid)
Str(x) ==
    IF x.t = "None" THEN <<"N", "o", "n", "e">>
    ELSE <<DigitChar(x.v)>>

KaaRecord(line, clk, venue_code, year_code, kai, day_hex, year, race_date, venue_name) ==
    Record(race_date.log,
        [venue_id      |-> venue_code \o year_code \o Str(kai) \o day_hex,
         race_date     |-> race_date.ret,
         venue_code    |-> venue_code,
         venue_name    |-> IF venue_name # <<>> THEN venue_name
                           ELSE VENUE_CODE_MAP(venue_code),
         year          |-> IF year.t = "None" THEN year
                           ELSE IF year.v <= 50 THEN PyInt(year.v + 2000)
                           ELSE PyInt(year.v + 1900),
         kai           |-> kai,
         day           |-> day_hex,
         data_category |-> IF Len(line) > 45
                           THEN SafeInt(Slice(line, 45, 46))
                           ELSE PyNone,
         created_at    |-> clk.t,
         updated_at    |-> clk.t + clk.dt])

parse_kaa_line(line, clk) ==
    ExceptException(
        IF Len(line) < KAA_MIN_LEN THEN TooShort
        ELSE KaaRecord(line, clk,
                 Strip(Slice(line, 0, 2)),
                 Strip(Slice(line, 2, 4)),
                 SafeInt(Slice(line, 4, 5)),
                 Strip(Slice(line, 5, 6)),
                 SafeInt(Strip(Slice(line, 2, 4))),
                 parse_date(PyStr(Slice(line, 6, 14))),
                 Remove(Strip(Slice(line, 16, 18)), FWS)))

(***************************************************************************)
(* File-level dispatcher                                                   *)
(***************************************************************************)
PyList(rs) == [t |-> "list", v |-> rs, e |-> 0]

\* the format tags, as texts
TagBAA == <<"B", "A", "A">>
TagBAB == <<"B", "A", "B">>
TagBAC == <<"B", "A", "C">>
TagKYF == <<"K", "Y", "F">>
TagKYG == <<"K", "Y", "G">>
TagKYH == <<"K", "Y", "H">>
TagSEC == <<"S", "E", "C">>
TagUKC == <<"U", "K", "C">>
TagKKA == <<"K", "K", "A">>
TagKAA == <<"K", "A", "A">>

\* a parser_map.get with a default decoder
parser_map_with_default(key) ==
    IF key \in {TagKYF, TagKYG, TagKYH} THEN "parse_kyf_line"
    ELSE IF key = TagSEC THEN "parse_sec_line"
    ELSE IF key = TagUKC THEN "parse_ukc_line"
    ELSE IF key = TagKKA THEN "parse_kka_line"
    ELSE IF key = TagKAA THEN "parse_kaa_line"
    ELSE "parse_baa_line"

\* parser_map.get(key): the decoder's name, "" for None
parser_map(key) ==
    IF key \in {TagBAA, TagBAB, TagBAC} THEN "parse_baa_line"
    ELSE IF key \in {TagKYF, TagKYG, TagKYH} THEN "parse_kyf_line"
    ELSE IF key = TagSEC THEN "parse_sec_line"
    ELSE IF key = TagUKC THEN "parse_ukc_line"
    ELSE IF key = TagKKA THEN "parse_kka_line"
    ELSE IF key = TagKAA THEN "parse_kaa_line"
    ELSE ""

\* parser_func(line)
Apply(parser_func, line, clk) ==
    CASE parser_func = "parse_baa_line" -> parse_baa_line(line, clk)
      [] parser_func = "parse_kyf_line" -> parse_kyf_line(line, clk)
      [] parser_func = "parse_sec_line" -> parse_sec_line(line, clk)
      [] parser_func = "parse_ukc_line" -> parse_ukc_line(line, clk)
      [] parser_func = "parse_kka_line" -> parse_kka_line(line, clk)
      [] parser_func = "parse_kaa_line" -> parse_kaa_line(line, clk)

\* if not line or line.strip() == ''
IsBlank(line) == line = <<>> \/ Strip(line) = <<>>

\* the loop body after parsed = parser_func(line)
LineParsed(parsed, acc) ==
    IF parsed.exc # ""
    THEN [acc EXCEPT !.log = (@ \o parsed.log) \o <<"ERROR">>]
    ELSE IF parsed.ret.t = "dict"
    THEN [results |-> Append(acc.results, parsed.ret),
          log     |-> acc.log \o parsed.log]
    ELSE [acc EXCEPT !.log = @ \o parsed.log]

\* an iteration that hands blank lines to the decoder as well
LineStepNoBlankTest(parser_func, line, clk, acc) ==
    LineParsed(Apply(parser_func, line, clk), acc)

\* one iteration of the loop over the lines; acc holds results and log
LineStep(parser_func, line, clk, acc) ==
    IF IsBlank(line) THEN acc
    ELSE LineParsed(Apply(parser_func, line, clk), acc)

\* the state after lines 1..i; every decoder call reads the clock twice
RECURSIVE Loop(_, _, _, _)
Loop(parser_func, lines, i, clk) ==
    IF i = 0 THEN [results |-> <<>>, log |-> <<>>]
    ELSE LineStep(parser_func, lines[i], Later(clk, 2 * (i - 1)),
                  Loop(parser_func, lines, i - 1, clk))

\* logger.info(...); return results
Finish(end) == Logged([Ok(PyList(end.results)) EXCEPT !.log = end.log], "INFO")

Dispatch(lines, parser_func, clk) ==
    IF parser_func = "" THEN Logged(Ok(PyList(<<>>)), "WARNING")
    ELSE Finish(Loop(parser_func, lines, Len(lines), clk))

\* a dispatch looking the decoder up with parser_map[...]: KeyError
DispatchSubscript(lines, parser_func, clk) ==
    IF parser_func = "" THEN Raise("KeyError", "no such key")
    ELSE Finish(Loop(parser_func, lines, Len(lines), clk))

parse_file_subscript(file_content, data_type, clk) ==
    DispatchSubscript(Split(Strip(file_content)), parser_map(Upper(data_type)), clk)

parse_file(file_content, data_type, clk) ==
    Dispatch(Split(Strip(file_content)), parser_map(Upper(data_type)), clk)

(***************************************************************************)
(* The loader: file names, table names and the processing of one file      *)
(***************************************************************************)
\* a table name or a message is held as one string, a file name as text
TABLE_MAPPING(tag) ==
    CASE tag \in {TagBAA, TagBAB, TagBAC} -> PyStr("race_info")
      [] tag \in {TagKYF, TagKYG, TagKYH} -> PyStr("horse_results")
      [] tag = TagSEC -> PyStr("race_results")
      [] tag = TagUKC -> PyStr("horse_master")
      [] tag = TagKKA -> PyStr("horse_extended")
      [] tag = TagKAA -> PyStr("venue_info")
      [] OTHER -> PyNone

\* TABLE_MAPPING.get(data_type.upper())
get_table_name(data_type) == TABLE_MAPPING(Upper(data_type))

\* os.path.basename: what follows the last "/"
basename(filename) ==
    SubSeq(filename,
           Max(0, CHOOSE i \in 0..Len(filename) :
                      /\ i > 0 => filename[i] = "/"
                      /\ \A j \in (i + 1)..Len(filename) : filename[j] # "/") + 1,
           Len(filename))

AsciiUpper ==
    {"A", "B", "C", "D", "E", "F", "G", "H", "I", "J", "K", "L", "M", "N", "O",
     "P", "Q", "R", "S", "T", "U", "V", "W", "X", "Y", "Z"}

\* [A-Z] under re.IGNORECASE: the letters whose other case is in the range
MatchesLetter(c) == UpperChar(c) \in AsciiUpper

\* \d on text: every decimal digit of Unicode, here U+FF11 besides 0-9
MatchesDigit(c) == c \in Digits \cup {"U+FF11"}

\* a literal letter of the pattern under re.IGNORECASE
MatchesLiteral(c, letter) == UpperChar(c) = letter

\* the text $ lets the pattern end at: all of it, or all but a final line break
BeforeEnd(b) ==
    IF b # <<>> /\ b[Len(b)] = NL THEN SubSeq(b, 1, Len(b) - 1) ELSE b

\* re.match(r'^([A-Z]{2,3})\d{6}\.csv$', b, re.IGNORECASE) with k letters
MatchTag(b, k) ==
    /\ Len(b) = k + 10
    /\ \A i \in 1..k : MatchesLetter(b[i])
    /\ \A i \in (k + 1)..(k + 6) : MatchesDigit(b[i])
    /\ b[k + 7] = "."
    /\ MatchesLiteral(b[k + 8], "C")
    /\ MatchesLiteral(b[k + 9], "S")
    /\ MatchesLiteral(b[k + 10], "V")

\* match.group(1).upper() if match else None
TagOfName(b) ==
    IF MatchTag(b, 3) THEN PyStr(Upper(SubSeq(b, 1, 3)))
    ELSE IF MatchTag(b, 2) THEN PyStr(Upper(SubSeq(b, 1, 2)))
    ELSE PyNone

\* an extraction that matches the file name with its directories
extract_data_type_whole_path(filename) == TagOfName(BeforeEnd(filename))

extract_data_type(filename) == TagOfName(BeforeEnd(basename(filename)))

\* the result dictionary of process_file and the loads it made; of the keys
\* the model follows status, records_processed, error and table
Failed(error, made) ==
    [ret   |-> PyDict([status |-> "failed", records_processed |-> PyInt(0),
                       error |-> PyStr(error)]),
     loads |-> made]

Succeeded(records_loaded, table_name, made) ==
    [ret   |-> PyDict([status |-> "success", records_processed |-> PyInt(records_loaded),
                       error |-> PyNone, table |-> table_name]),
     loads |-> made]

\* load_to_bigquery(...): it returns len(rows) or raises
Load(table_name, rows, made, bigquery) ==
    IF bigquery = "raises" THEN Failed("BigQuery error", made)
    ELSE Succeeded(Len(rows), table_name, made)

\* a loader that hands whatever was parsed to the warehouse
AfterParseNoEmptyTest(parsed, table_name, bigquery) ==
    IF parsed.exc # "" THEN Failed(parsed.msg, <<>>)
    ELSE Load(table_name, parsed.ret.v,
              <<[table |-> table_name, rows |-> parsed.ret.v]>>, bigquery)

\* parsed is the outcome of JRDBParser.parse_file(file_content, data_type)
AfterParse(parsed, table_name, bigquery) ==
    IF parsed.exc # "" THEN Failed(parsed.msg, <<>>)
    ELSE IF parsed.ret.v = <<>> THEN Failed("No data parsed", <<>>)
    ELSE Load(table_name, parsed.ret.v,
              <<[table |-> table_name, rows |-> parsed.ret.v]>>, bigquery)

AfterTable(data_type, table_name, file_content, env, clk) ==
    IF table_name = PyNone THEN Failed("Unsupported data type", <<>>)
    ELSE IF env.storage = "raises" THEN Failed("storage error", <<>>)
    ELSE IF env.download = "raises" THEN Failed("File decode error", <<>>)
    ELSE AfterParse(parse_file(file_content, data_type, clk), table_name, env.bigquery)

AfterName(data_type, file_content, env, clk) ==
    IF data_type = PyNone THEN Failed("Invalid filename format", <<>>)
    ELSE AfterTable(data_type.v, get_table_name(data_type.v), file_content, env, clk)

\* file_content is what the blob of the name decodes to
process_file(file_name, file_content, env, clk) ==
    AfterName(extract_data_type(file_name), file_content, env, clk)

(***************************************************************************)
(* Inputs                                                                  *)
(***************************************************************************)
\* longest text handed to safe_int and safe_float
MaxConvLen == 3

\* longest race key handed to parse_race_id
MaxKeyLen == 9

\* lines are up to this much longer than the format's minimum
MaxExtra == 1

\* most lines joined into one file content
MaxLines == 2

\* longest month-and-day part of a date text
MaxDateLen == 4

\* latest time of a first clock read
MaxClock == 1

MaxBlockExtra == 1

MaxDirDepth == 1

ConvChars == {"0", "1", "5", " ", "-", "+", ".", "_", "A", FWS}

KeyChars == Digits \cup {" ", "-", "A"}

SeqsUpTo(S, n) == UNION {[1..k -> S] : k \in 0..n}

\* arguments of the converters: texts, and None as the one non-text
ConvInputs == {PyStr(s) : s \in SeqsUpTo(ConvChars, MaxConvLen)} \cup {PyNone}

Defaults == {PyNone, PyInt(0)}

DateChars == {"0", "1", "2", "3", "9", " "}

DateYears ==
    {<<"2", "0", "2", "6">>, <<"2", "0", "2", "4">>, <<"1", "9", "0", "0">>,
     <<"0", "0", "0", "0">>, <<"0", "1", "1", "1">>, <<"2", "0", "A", "6">>,
     <<FWS, "2", "0", "2", "6">>, <<"2", "0", "2">>, <<>>}

\* date texts: a year part and every month-and-day part up to MaxDateLen
DateInputs ==
    {PyStr(y \o md) : y \in DateYears, md \in SeqsUpTo(DateChars, MaxDateLen)}
    \cup {PyNone}

GoodKey == <<"0", "6", "2", "6", "1", "1", "0", "1">>

\* race keys: every year code, every meeting and day character, and texts
\* of every length up to MaxKeyLen
RaceKeys ==
    {<<"0", "6", a, b, "1", "1", "0", "1">> : a \in KeyChars, b \in KeyChars}
    \cup {<<"0", "6", "2", "6", a, b, "0", "1">> : a \in KeyChars, b \in KeyChars}
    \cup {<<"0", "6", "2", "6", "1", "1", a, b>> : a \in KeyChars, b \in KeyChars}
    \cup {Pad("1", n) : n \in 0..MaxKeyLen}
    \cup {SubSeq(GoodKey \o GoodKey, 1, n) : n \in 0..MaxKeyLen}

\* the first eight characters of a line: well-formed keys and keys that are
\* short once stripped, signed, lettered or blank
LineKeys ==
    {GoodKey,
     <<"1", "0", "9", "9", "2", "3", "1", "2">>,
     <<" ", "6", "2", "6", "1", "1", "0", "1">>,
     <<"0", "6", "2", "6", "1", "1", "0", " ">>,
     <<"0", "6", "-", "5", "1", "1", "0", "1">>,
     <<"0", "6", "2", "6", "A", "1", "0", "1">>,
     <<"0", "6", "A", "6", "1", "1", "0", "1">>,
     Pad(" ", 8)}

\* a line of n characters: the key, a filler of "1", and a last character
Line(key, n, last) ==
    IF n <= 8 THEN SubSeq(key, 1, n)
    ELSE key \o Pad("1", n - 9) \o <<last>>

LineLens(min) == {min \div 2} \cup ((min - 1)..(min + MaxExtra))

Lines(min) ==
    {Line(k, n, c) : k \in LineKeys, n \in LineLens(min), c \in {"1", " "}}

Clocks == [t : 0..MaxClock, dt : {0, 1}]

NoClock == [t |-> 0, dt |-> 0]

MinLenOf(parser_func) ==
    CASE parser_func = "parse_baa_line" -> BAA_MIN_LEN
      [] parser_func = "parse_kyf_line" -> KYF_MIN_LEN
      [] parser_func = "parse_sec_line" -> SEC_MIN_LEN
      [] parser_func = "parse_ukc_line" -> UKC_MIN_LEN
      [] parser_func = "parse_kka_line" -> KKA_MIN_LEN
      [] parser_func = "parse_kaa_line" -> KAA_MIN_LEN
      [] OTHER -> KAA_MIN_LEN

\* line with the characters at 0-based positions [at, at + Len(span)) replaced
Put(line, at, span) ==
    [i \in 1..Len(line) |->
        IF i > at /\ i <= at + Len(span) THEN span[i - at] ELSE line[i]]

\* raw values of a tenths-scaled field: a weight, zero, blank, lettered,
\* signed and space-padded
ScaledSpans ==
    {<<"5", "5", "0">>, <<"0", "0", "0">>, <<" ", " ", " ">>, <<"0", "A", "0">>,
     <<"-", "5", "5">>, <<" ", " ", "5">>}

\* lines of the minimum length with every pair of raw values in the
\* tenths-scaled fields of the format
ScaledLines(parser_func) ==
    CASE parser_func = "parse_kyf_line" ->
           {Put(Line(GoodKey, KYF_MIN_LEN, "1"), 159, a) : a \in ScaledSpans}
      [] parser_func = "parse_sec_line" ->
           {Put(Put(Put(Put(Put(Line(GoodKey, SEC_MIN_LEN, "1"),
                                96, <<" ">> \o a), 100, b), 190, b), 193, a), 196, b) :
               a \in ScaledSpans, b \in ScaledSpans}
      [] OTHER -> {}

GradeCodes == {"1", "2", "3", "5", " ", "4", "A"}

Conditions ==
    {<<"O", "P">>, <<"A", "1">>, <<"1", "6">>, <<" ", "A">>, <<" ", " ">>}

\* race-program lines of the minimum length with every grade code and
\* race-condition field
ClassLines ==
    {Put(Put(Line(GoodKey, BAA_MIN_LEN, "1"), 29, c), 35, <<g>>) :
        g \in GradeCodes, c \in Conditions}

\* race-program lines of the minimum length with the date field holding a
\* date of the year of the key, one of another year, a short one and blanks
DatedLines ==
    {Put(Line(GoodKey, BAA_MIN_LEN, "1"), 8, d) :
        d \in {<<"2", "0", "2", "6", "0", "1", "0", "4">>,
               <<"2", "0", "2", "5", "1", "2", "2", "8">>,
               <<"2", "0", "2", "6", "0", "1", "4", " ">>,
               Pad(" ", 8)}}

\* texts of a name field: full-width spaces before, after and inside the
\* name, ordinary spaces around it, and nothing but spaces
NameSpans ==
    {<<"A", FWS, "B">>, <<FWS, "A", "B">>, <<"A", "B", FWS>>, <<" ", "A", " ">>,
     <<"A", FWS, " ">>, <<FWS, " ", FWS>>}

\* where the first name field of a format starts
NameAt(parser_func) ==
    CASE parser_func = "parse_baa_line" -> 36
      [] parser_func = "parse_kyf_line" -> 18
      [] parser_func = "parse_sec_line" -> 26
      [] parser_func = "parse_ukc_line" -> 8
      [] parser_func = "parse_kaa_line" -> 16
      [] OTHER -> 0

\* lines of the minimum length with every name text at the head of the
\* first name field, the field being blank after it
NamedLines(parser_func) ==
    IF NameAt(parser_func) = 0 THEN {}
    ELSE {Put(Line(GoodKey, MinLenOf(parser_func), "1"), NameAt(parser_func),
              SubSeq(n \o <<" ", " ", " ">>, 1,
                     IF parser_func = "parse_kaa_line" THEN 2 ELSE 6)) :
             n \in NameSpans}

\* race-result lines of the minimum length with a track-condition span:
\* 2-digit codes, 1-digit codes padded on either side, unknown and blank
TrackLines ==
    {Put(Line(GoodKey, SEC_MIN_LEN, "1"), 51, c) :
        c \in {<<"1", "0">>, <<"1", "1">>, <<"2", "2">>, <<"4", "2">>, <<"1", " ">>,
               <<" ", "1">>, <<"4", " ">>, <<"5", "0">>, <<" ", " ">>}}

\* the lines handed to a decoder
LinesOf(parser_func) ==
    Lines(MinLenOf(parser_func)) \cup ScaledLines(parser_func)
    \cup (IF parser_func = "parse_baa_line" THEN ClassLines \cup DatedLines ELSE {})
    \cup NamedLines(parser_func)
    \cup (IF parser_func = "parse_sec_line" THEN TrackLines ELSE {})

Tags ==
    {TagBAA, TagBAB, TagBAC, TagKYF, TagKYG, TagKYH, TagSEC, TagUKC, TagKKA,
     TagKAA, <<"b", "a", "a">>, <<"Z", "Z", "Z">>, <<"K", "A", "B">>, <<"O", "Z">>}

\* the lines of a file: decodable ones ending in a digit or in a space,
\* one with a lettered key, one whose first ten characters are blank, a
\* short one, a blank one and an empty one
FileLines(min) ==
    {Line(GoodKey, min, "1"),
     Line(GoodKey, min, " "),
     Line(<<"0", "6", "A", "6", "1", "1", "0", "1">>, min, "1"),
     Put(Line(GoodKey, min, "1"), 0, Pad(" ", 10)),
     Line(GoodKey, min - 1, "1"),
     <<" ", FWS>>,
     <<>>}

\* file contents: up to MaxLines lines joined by line breaks, with or
\* without a line break after the last line
Contents(min) ==
    LET joined == {Join(ls) : ls \in SeqsUpTo(FileLines(min), MaxLines)}
    IN  joined \cup {c \o <<NL>> : c \in joined}

\* 3-character sub-spans of a repeated group: counts, a blank one, a
\* space-padded one and a lettered one
Spans ==
    {<<"0", "0", "5">>, <<"0", "0", "3">>, <<"0", "0", "2">>, <<"0", "1", "0">>,
     <<" ", " ", " ">>, <<" ", "7", " ">>, <<"0", "A", "0">>}

FullBlock == <<"0", "0", "5", "0", "0", "3", "0", "0", "2", "0", "1", "0">>

\* repeated-group blocks: four sub-spans and up to MaxBlockExtra characters
\* after them, and every proper prefix of a well-formed block
Blocks ==
    {a \o b \o c \o d \o Pad("9", n) :
        a \in Spans, b \in Spans, c \in Spans, d \in Spans, n \in 0..MaxBlockExtra}
    \cup {SubSeq(FullBlock, 1, n) : n \in 0..11}

\* directory prefixes: up to MaxDirDepth directories, relative or absolute
RECURSIVE Dirs(_)
Dirs(n) ==
    IF n = 0 THEN {<<>>, <<"/">>}
    ELSE Dirs(n - 1) \cup {<<"B", "a", "a", "/">> \o d : d \in Dirs(n - 1)}

NameTags ==
    {TagBAA, TagSEC, TagKAA, <<"b", "a", "a">>, <<"O", "Z">>, <<"B">>,
     <<"B", "A", "A", "A">>, <<"B", "1", "A">>, <<"U+017F", "E", "C">>, <<>>}

NameDates ==
    {<<"2", "6", "0", "1", "0", "4">>, <<"2", "6", "0", "1", "0">>,
     <<"2", "6", "0", "1", "0", "4", "0">>, <<"2", "6", "A", "1", "0", "4">>,
     <<"2", "6", "0", "1", "0", "U+FF11">>}

NameExts ==
    {<<".", "c", "s", "v">>, <<".", "C", "S", "V">>, <<".", "c", "s">>,
     <<"c", "s", "v">>, <<".", "c", "s", "v", NL>>, <<".", "c", "s", "v", NL, NL>>,
     <<".", "c", "s", "v", " ">>}

\* file names: a directory prefix, a tag part, a date part and an extension
FileNames ==
    {d \o t \o n \o e :
        d \in Dirs(MaxDirDepth), t \in NameTags, n \in NameDates, e \in NameExts}

\* the tags asked for a table: those of the dispatcher, and unmapped ones
TableTags ==
    Tags \cup {<<"s", "e", "c">>, <<"I", "N", "V", "A", "L", "I", "D">>, <<>>}

NameTail == <<"2", "6", "0", "1", "0", "4", ".", "c", "s", "v">>

\* the collaborators of one call: creating the storage client, downloading
\* the blob and loading into the warehouse each succeed or raise
Clouds ==
    [storage : {"ok", "raises"}, download : {"ok", "raises"}, bigquery : {"ok", "raises"}]

\* the names of the files processed: mapped tags, plain or under a
\* directory, a tag without a table, one without a decoder and a bad name
ProcessNames ==
    {TagBAA \o NameTail, <<"K", "a", "a", "/">> \o TagKAA \o NameTail,
     TagSEC \o NameTail, <<"K", "A", "B">> \o NameTail, <<"O", "Z">> \o NameTail,
     <<"i", "n", "v", "a", "l", "i", "d", ".", "c", "s", "v">>}

\* the decoder's minimum length for the file of a name
MinLenOfName(file_name) ==
    IF extract_data_type(file_name) = PyNone THEN KAA_MIN_LEN
    ELSE MinLenOf(parser_map(extract_data_type(file_name).v))

\* the threads of a parallel deployment
Workers == {"w1", "w2"}

NoThread == [pc |-> "idle", op |-> "", line |-> <<>>, out |-> Ok(PyNone)]

\* decoders that keep the line being decoded in one place they all share
LineOfShared(w) ==
    threads[CHOOSE v \in Workers : threads[v].pc = "running"].line

\* the line of an invocation is its parameter: a local of the invocation
LineOf(w) == threads[w].line

\* the lines decoded in parallel: a decodable one of each of two venues,
\* one with a lettered key and a short one
ParallelLines(parser_func) ==
    {Line(GoodKey, MinLenOf(parser_func), "1"),
     Line(<<"1", "0", "9", "9", "2", "3", "1", "2">>, MinLenOf(parser_func), "1"),
     Line(<<"0", "6", "A", "6", "1", "1", "0", "1">>, MinLenOf(parser_func), "1"),
     Line(GoodKey, MinLenOf(parser_func) - 1, "1")}

(***************************************************************************)
(* The calls: each action is one call of the parser's interface            *)
(***************************************************************************)
Call(op, text, tag, default, clk) ==
    [op |-> op, text |-> text, tag |-> tag, default |-> default, clk |-> clk]

(***************************************************************************)
(* The uploader (upload_to_gcs.py): a directory of files, the copies in    *)
(* the bucket, and the state of a call of the uploader                     *)
(***************************************************************************)
MaxRetries == 3

MaxFiles == 2

\* GCSUploader.SUPPORTED_EXTENSIONS
SUPPORTED_EXTENSIONS == {<<".", "c", "s", "v">>, <<".", "t", "x", "t">>, <<".", "l", "z", "h">>}

\* the default of the parameter max_retries
max_retries_default == 3

\* a directory entry: its suffix, whether it is a regular file, the MD5 of
\* its content, its size, and the copy in the bucket: "NotFound", a blob
\* without md5_hash (""), a blob with a hash, or a bucket that refuses the
\* request ("Forbidden")
Entry(suffix, is_file, md5, size, blob) ==
    [suffix |-> suffix, is_file |-> is_file, md5 |-> md5, size |-> size, blob |-> blob]

DirEntries ==
    {Entry(<<".", "c", "s", "v">>, TRUE, "a", 1, "NotFound"),
     Entry(<<".", "c", "s", "v">>, TRUE, "a", 2, "a"),
     Entry(<<".", "C", "S", "V">>, TRUE, "a", 1, "a"),
     Entry(<<".", "t", "x", "t">>, TRUE, "a", 1, "b"),
     Entry(<<".", "l", "z", "h">>, TRUE, "a", 2, ""),
     Entry(<<".", "c", "s", "v">>, TRUE, "a", 1, "Forbidden"),
     Entry(<<".", "d", "a", "t">>, TRUE, "a", 1, "a"),
     Entry(<<".", "c", "s", "v">>, FALSE, "a", 0, "NotFound")}

\* the entries of a directory in the order of their names
Listings == SeqsUpTo(DirEntries, MaxFiles)

\* str.lower() of a suffix
Lower(suffix) ==
    [i \in 1..Len(suffix) |->
        CASE suffix[i] = "C" -> "c"
          [] suffix[i] = "S" -> "s"
          [] suffix[i] = "V" -> "v"
          [] OTHER -> suffix[i]]

\* the files upload_directory collects: regular files with a supported suffix
IsSupported(f) == f.is_file /\ Lower(f.suffix) \in SUPPORTED_EXTENSIONS

SupportedFiles(listing) == SelectSeq(listing, IsSupported)

\* _get_gcs_blob_md5: the hash of the copy, None for a copy that is missing
\* or has no hash; any error other than NotFound propagates
get_gcs_blob_md5(f) ==
    IF f.blob = "Forbidden" THEN Raise("Forbidden", "reload")
    ELSE IF f.blob = "NotFound" \/ f.blob = "" THEN Ok(PyNone)
    ELSE Ok(PyStr(f.blob))

\* _should_upload as a test that ignores the hash of the copy
should_upload_always(f) ==
    IF get_gcs_blob_md5(f).exc # "" THEN get_gcs_blob_md5(f)
    ELSE Ok(TRUE)

\* _should_upload: True without a hash of the copy, else whether the hashes differ
should_upload(f) ==
    IF get_gcs_blob_md5(f).exc # "" THEN get_gcs_blob_md5(f)
    ELSE IF get_gcs_blob_md5(f).ret = PyNone THEN Ok(TRUE)
    ELSE Ok(PyStr(f.md5) # get_gcs_blob_md5(f).ret)

\* a retry loop that also waits after its last attempt
MoreAttempts_inclusive(attempt, max_retries) == attempt < max_retries

\* the test of the except clause: another attempt follows this one
MoreAttempts(attempt, max_retries) == attempt < max_retries - 1

\* no call of the uploader is in progress
NoUpload ==
    [op |-> "", pc |-> "idle", exists |-> TRUE, listing |-> <<>>,
     force |-> FALSE, dry_run |-> FALSE, files |-> <<>>, i |-> 1,
     total_files |-> 0, uploaded_files |-> 0, skipped_files |-> 0,
     failed_files |-> 0, uploaded_bytes |-> 0, exc |-> "",
     max_retries |-> 0, attempt |-> 0, outcomes |-> <<>>, waits |-> <<>>,
     ret |-> "", log |-> <<>>]

(***************************************************************************)
(* The warehouse as load_to_bigquery sees it: the temporary tables that    *)
(* exist, the clock, and the invocations in flight                         *)
(***************************************************************************)
MaxTick == 3

\* the function instances that may run at the same time
Invocations == {"f1", "f2"}

\* the tables the invocations load into
LoadTargets == {"race_info", "horse_results"}

\* datetime.utcnow().strftime('%Y%m%d%H%M%S'): the instant, counted in half
\* seconds, cut to whole seconds
strftime_seconds(now) == now \div 2

\* temp_table_ref: the table and the second of the invocation
temp_table_name(table_id, now) == <<"_temp_", table_id, strftime_seconds(now)>>

\* the invocations that own a temporary table of this name
Owners(temp, ref) == {t.owner : t \in {x \in temp : x.ref = ref}}

\* an insert that leaves the inner try without its finally clause
AfterInsert_no_finally(outcome) == IF outcome = "ok" THEN "merge" ELSE "raised"

\* where the inner try goes after insert_rows_json: on to the MERGE, or, for
\* reported errors and for an exception, into the finally clause
AfterInsert(outcome) == IF outcome = "ok" THEN "merge" ELSE "finally"

\* no invocation of load_to_bigquery
NoInvocation ==
    [pc |-> "idle", table_id |-> "", temp_table_ref |-> <<>>, rows |-> 0,
     created |-> FALSE, inserted |-> "", merged |-> "", deleted |-> "",
     exc |-> "", ret |-> 0, touched |-> {}]

NoWarehouse ==
    [now |-> 0, temp |-> {}, inv |-> [f \in Invocations |-> NoInvocation]]

\* no call of the loader is in progress
NoCloud == [storage |-> "ok", download |-> "ok", bigquery |-> "ok"]

\* a decoder that remembers the venue code it saw in the code table
TablesAfterCaching(parser_func, line) ==
    IF Slice(line, 0, 2) \in DOMAIN tables.VENUE_CODE_MAP
    THEN [tables EXCEPT !.VENUE_CODE_MAP[Slice(line, 0, 2)] = Slice(line, 0, 2)]
    ELSE tables

\* the class attributes after a decoder ran on a line: no decoder assigns
\* to them or calls a mutating method on them
TablesAfter(parser_func, line) == tables

Init ==
    /\ call = Call("", PyNone, <<>>, PyNone, NoClock)
    /\ result = Ok(PyNone)
    /\ tables = ClassTables
    /\ prev = <<>>
    /\ cloud = NoCloud
    /\ loads = <<>>
    /\ threads = [w \in Workers |-> NoThread]
    /\ up = NoUpload
    /\ bq = NoWarehouse

\* no call is in progress: the interface is synchronous and single-threaded
Idle == call.op = ""

SafeIntCall ==
    /\ Idle
    /\ UNCHANGED <<tables, prev, cloud, loads, threads, up, bq>>
    /\ \E value \in ConvInputs, default \in Defaults :
        /\ call' = Call("safe_int", value, <<>>, default, NoClock)
        /\ result' = safe_int(value, default)

SafeFloatCall ==
    /\ Idle
    /\ UNCHANGED <<tables, prev, cloud, loads, threads, up, bq>>
    /\ \E value \in ConvInputs, default \in Defaults :
        /\ call' = Call("safe_float", value, <<>>, default, NoClock)
        /\ result' = safe_float(value, default)

ParseRaceIdCall ==
    /\ Idle
    /\ UNCHANGED <<tables, prev, cloud, loads, threads, up, bq>>
    /\ \E race_key \in RaceKeys :
        /\ call' = Call("parse_race_id", PyStr(race_key), <<>>, PyNone, NoClock)
        /\ result' = LET r == parse_race_id(race_key)
                     IN  IF r.exc = "" THEN [r EXCEPT !.ret = PyDict(@)] ELSE r

ParseDateCall ==
    /\ Idle
    /\ UNCHANGED <<tables, prev, cloud, loads, threads, up, bq>>
    /\ \E date_str \in DateInputs :
           /\ call' = Call("parse_date", date_str, <<>>, PyNone, NoClock)
           /\ result' = parse_date(date_str)

LineCall(parser_func) ==
    /\ Idle
    /\ UNCHANGED <<prev, cloud, loads, threads, up, bq>>
    /\ \E line \in LinesOf(parser_func), clk \in Clocks :
        /\ call' = Call(parser_func, PyStr(line), <<>>, PyNone, clk)
        /\ result' = Apply(parser_func, line, clk)
        /\ tables' = TablesAfter(parser_func, line)

\* the same decoder called again on the same line, two clock reads later
DecodeAgain ==
    /\ call.op \in {"parse_baa_line", "parse_kyf_line", "parse_sec_line",
                    "parse_ukc_line", "parse_kka_line", "parse_kaa_line"}
    /\ prev = <<>>
    /\ prev' = <<result>>
    /\ UNCHANGED <<cloud, loads, threads, up, bq>>
    /\ call' = [call EXCEPT !.clk = Later(@, 2)]
    /\ result' = Apply(call.op, call.text.v, Later(call.clk, 2))
    /\ tables' = TablesAfter(call.op, call.text.v)

ParseBaaLineCall == LineCall("parse_baa_line")

ParseKyfLineCall == LineCall("parse_kyf_line")

ParseSecLineCall == LineCall("parse_sec_line")

ParseUkcLineCall == LineCall("parse_ukc_line")

ParseKkaLineCall == LineCall("parse_kka_line")

ParseKaaLineCall == LineCall("parse_kaa_line")

ParseFileCall ==
    /\ Idle
    /\ UNCHANGED <<tables, prev, cloud, loads, threads, up, bq>>
    /\ \E data_type \in Tags, clk \in Clocks :
        \E file_content \in Contents(MinLenOf(parser_map(Upper(data_type)))) :
            /\ call' = Call("parse_file", PyStr(file_content), data_type, PyNone, clk)
            /\ result' = parse_file(file_content, data_type, clk)

ParseZz9x4Call ==
    /\ Idle
    /\ UNCHANGED <<tables, prev, cloud, loads, threads, up, bq>>
    /\ \E s \in Blocks :
        /\ call' = Call("parse_zz9x4", PyStr(s), <<>>, PyNone, NoClock)
        /\ result' = Ok(PyDict(parse_zz9x4(s)))

GetTableNameCall ==
    /\ Idle
    /\ UNCHANGED <<tables, prev, cloud, loads, threads, up, bq>>
    /\ \E data_type \in TableTags :
        /\ call' = Call("get_table_name", PyNone, data_type, PyNone, NoClock)
        /\ result' = Ok(get_table_name(data_type))

ExtractDataTypeCall ==
    /\ Idle
    /\ UNCHANGED <<tables, prev, cloud, loads, threads, up, bq>>
    /\ \E filename \in FileNames :
        /\ call' = Call("extract_data_type", PyStr(filename), <<>>, PyNone, NoClock)
        /\ result' = Ok(extract_data_type(filename))

ProcessFileCall ==
    /\ Idle
    /\ UNCHANGED <<tables, prev, threads, up, bq>>
    /\ \E file_name \in ProcessNames, env \in Clouds :
        \E file_content \in Contents(MinLenOfName(file_name)) :
            /\ call' = Call("process_file", PyStr(file_content), file_name, PyNone, NoClock)
            /\ cloud' = env
            /\ result' = Ok(process_file(file_name, file_content, env, NoClock).ret)
            /\ loads' = process_file(file_name, file_content, env, NoClock).loads

\* the caller takes the outcome; the parser keeps nothing of the call
Return ==
    /\ ~Idle
    /\ call' = Call("", PyNone, <<>>, PyNone, NoClock)
    /\ result' = Ok(PyNone)
    /\ prev' = <<>>
    /\ tables' = tables
    /\ cloud' = NoCloud
    /\ loads' = <<>>
    /\ threads' = threads
    /\ UNCHANGED <<up, bq>>

Next ==
    \/ SafeIntCall
    \/ SafeFloatCall
    \/ ParseRaceIdCall
    \/ ParseDateCall
    \/ ParseBaaLineCall
    \/ ParseKyfLineCall
    \/ ParseSecLineCall
    \/ ParseUkcLineCall
    \/ ParseKkaLineCall
    \/ ParseKaaLineCall
    \/ ParseFileCall
    \/ ParseZz9x4Call
    \/ DecodeAgain
    \/ GetTableNameCall
    \/ ExtractDataTypeCall
    \/ ProcessFileCall
    \/ Return

Spec == Init /\ [][Next]_vars

(***************************************************************************)
(* Decoder invocations run in parallel: each worker takes a decoder and a  *)
(* line, runs the decoder and hands the outcome back, in any interleaving  *)
(***************************************************************************)
\* a worker is given a decoder and a line
Begin(w) ==
    /\ threads[w].pc = "idle"
    /\ \E parser_func \in {"parse_baa_line", "parse_kyf_line", "parse_sec_line",
                            "parse_ukc_line", "parse_kka_line", "parse_kaa_line"} :
        \E line \in ParallelLines(parser_func) :
            threads' = [threads EXCEPT ![w] =
                           [pc |-> "running", op |-> parser_func, line |-> line,
                            out |-> Ok(PyNone)]]
    /\ UNCHANGED <<call, result, tables, prev, cloud, loads, up, bq>>

\* the decoder runs on the line of its invocation and the code tables
Decode(w) ==
    /\ threads[w].pc = "running"
    /\ threads' = [threads EXCEPT ![w].pc = "done",
                                  ![w].out = Apply(threads[w].op, LineOf(w), NoClock)]
    /\ tables' = TablesAfter(threads[w].op, LineOf(w))
    /\ UNCHANGED <<call, result, prev, cloud, loads, up, bq>>

\* the caller takes the outcome of the worker
End(w) ==
    /\ threads[w].pc = "done"
    /\ threads' = [threads EXCEPT ![w] = NoThread]
    /\ UNCHANGED <<call, result, tables, prev, cloud, loads, up, bq>>

BeginSome == \E w \in Workers : Begin(w)

DecodeSome == \E w \in Workers : Decode(w)

EndSome == \E w \in Workers : End(w)

NextParallel ==
    \/ BeginSome
    \/ DecodeSome
    \/ EndSome

SpecParallel == Init /\ [][NextParallel]_vars

(***************************************************************************)
(* The uploader, statement by statement: upload_directory walks the files  *)
(* of a directory and calls _upload_file_with_retry, whose loop tries,     *)
(* waits and tries again                                                   *)
(***************************************************************************)
\* _upload_file_with_retry returns ok: to its caller, or into the loop of
\* upload_directory, which counts the file and goes on to the next
RetryReturn(u, ok) ==
    IF u.op = "_upload_file_with_retry"
    THEN [u EXCEPT !.pc = "done", !.ret = IF ok THEN "True" ELSE "False"]
    ELSE [u EXCEPT !.pc = "loop",
                   !.ret = IF ok THEN "True" ELSE "False",
                   !.uploaded_files = IF ok THEN @ + 1 ELSE @,
                   !.uploaded_bytes = IF ok THEN @ + u.files[u.i].size ELSE @,
                   !.failed_files = IF ok THEN @ ELSE @ + 1,
                   !.log = Append(@, [calls |-> Len(u.outcomes), ok |-> ok]),
                   !.i = @ + 1]

\* the loop of _upload_file_with_retry is entered
RetryEnter(u, max_retries) ==
    [u EXCEPT !.pc = "for", !.max_retries = max_retries, !.attempt = 0,
              !.outcomes = <<>>, !.waits = <<>>, !.ret = "running"]

\* one pass of the loop of upload_directory for the file at u.i, or the
\* return of the counts after the last file
DirectoryStep(u) ==
    IF u.i > Len(u.files) THEN [u EXCEPT !.pc = "done"]
    ELSE IF ~u.force /\ should_upload(u.files[u.i]).exc # ""
    THEN [u EXCEPT !.pc = "done", !.exc = should_upload(u.files[u.i]).exc]
    ELSE IF ~u.force /\ ~should_upload(u.files[u.i]).ret
    THEN [u EXCEPT !.skipped_files = @ + 1,
                   !.log = Append(@, [calls |-> 0, ok |-> FALSE]),
                   !.i = @ + 1]
    ELSE IF u.dry_run
    THEN [u EXCEPT !.uploaded_files = @ + 1,
                   !.uploaded_bytes = @ + u.files[u.i].size,
                   !.log = Append(@, [calls |-> 0, ok |-> FALSE]),
                   !.i = @ + 1]
    ELSE RetryEnter(u, max_retries_default)

Others == <<call, result, tables, prev, cloud, loads, threads, bq>>

UploadFileWithRetryCall ==
    /\ up.op = ""
    /\ \E max_retries \in 0..MaxRetries :
        up' = RetryEnter([NoUpload EXCEPT !.op = "_upload_file_with_retry"], max_retries)
    /\ UNCHANGED Others

UploadDirectoryCall ==
    /\ up.op = ""
    /\ \E exists \in BOOLEAN, force \in BOOLEAN, dry_run \in BOOLEAN :
        \E listing \in IF exists THEN Listings ELSE {<<>>} :
            up' = [NoUpload EXCEPT !.op = "upload_directory",
                                   !.pc = IF exists THEN "loop" ELSE "done",
                                   !.exists = exists,
                                   !.listing = listing,
                                   !.force = force,
                                   !.dry_run = dry_run,
                                   !.files = SupportedFiles(listing),
                                   !.total_files = Len(SupportedFiles(listing))]
    /\ UNCHANGED Others

NextFile ==
    /\ up.pc = "loop"
    /\ up' = DirectoryStep(up)
    /\ UNCHANGED Others

\* blob.upload_from_filename returns: the loop returns True at once
UploadSucceeds ==
    /\ up.pc = "for"
    /\ up.attempt < up.max_retries
    /\ up' = RetryReturn([up EXCEPT !.outcomes = Append(@, TRUE)], TRUE)
    /\ UNCHANGED Others

\* blob.upload_from_filename raises: the loop waits when another attempt
\* follows, and returns False otherwise
UploadFails ==
    /\ up.pc = "for"
    /\ up.attempt < up.max_retries
    /\ up' = IF MoreAttempts(up.attempt, up.max_retries)
             THEN [up EXCEPT !.outcomes = Append(@, FALSE),
                             !.waits = Append(@, 2 ^ up.attempt),
                             !.pc = "sleep"]
             ELSE RetryReturn([up EXCEPT !.outcomes = Append(@, FALSE)], FALSE)
    /\ UNCHANGED Others

\* time.sleep returns and the loop takes the next attempt number
Wake ==
    /\ up.pc = "sleep"
    /\ up' = [up EXCEPT !.pc = "for", !.attempt = @ + 1]
    /\ UNCHANGED Others

\* range(max_retries) is exhausted: the statement after the loop returns False
Exhausted ==
    /\ up.pc = "for"
    /\ up.attempt >= up.max_retries
    /\ up' = RetryReturn(up, FALSE)
    /\ UNCHANGED Others

\* the caller takes the result or the exception
UploadReturn ==
    /\ up.pc = "done"
    /\ up' = NoUpload
    /\ UNCHANGED Others

\* the steps of the retry loop
RetryStep ==
    \/ UploadSucceeds
    \/ UploadFails
    \/ Wake
    \/ Exhausted

NextUpload ==
    \/ UploadFileWithRetryCall
    \/ UploadDirectoryCall
    \/ NextFile
    \/ UploadSucceeds
    \/ UploadFails
    \/ Wake
    \/ Exhausted
    \/ UploadReturn

\* the loop body is sequential code: an upload call returns or raises
\* within the deadline of its retry policy, and time.sleep returns
SpecUpload == Init /\ [][NextUpload]_vars /\ WF_vars(RetryStep)

(***************************************************************************)
(* load_to_bigquery, statement by statement, for invocations that run at   *)
(* the same time against one warehouse                                     *)
(***************************************************************************)
Rest == <<call, result, tables, prev, cloud, loads, threads, up>>

\* the invocation starts and names its temporary table after the clock
LoadBegin(f) ==
    /\ bq.inv[f].pc = "idle"
    /\ \E table_id \in LoadTargets :
        bq' = [bq EXCEPT !.inv[f] =
                  [NoInvocation EXCEPT !.pc = "create",
                                       !.table_id = table_id,
                                       !.temp_table_ref = temp_table_name(table_id, bq.now),
                                       !.rows = 1]]
    /\ UNCHANGED Rest

\* get_table and create_table: an error of either, and a table of that name
\* that exists already (Conflict), leave through the outer except clause
CreateTable(f) ==
    /\ bq.inv[f].pc = "create"
    /\ \E outcome \in {"ok", "error"} :
        bq' = IF outcome = "error" \/ Owners(bq.temp, bq.inv[f].temp_table_ref) # {}
              THEN [bq EXCEPT !.inv[f].pc = "raised",
                              !.inv[f].exc = "GoogleCloudError"]
              ELSE [bq EXCEPT !.temp = @ \cup {[ref |-> bq.inv[f].temp_table_ref,
                                                owner |-> f]},
                              !.inv[f].created = TRUE,
                              !.inv[f].pc = "insert"]
    /\ UNCHANGED Rest

\* insert_rows_json: all rows inserted, errors reported, or an exception
InsertRows(f) ==
    /\ bq.inv[f].pc = "insert"
    /\ \E outcome \in {"ok", "errors", "raises"} :
        bq' = [bq EXCEPT !.inv[f].inserted = outcome,
                         !.inv[f].touched = @ \cup Owners(bq.temp, bq.inv[f].temp_table_ref),
                         !.inv[f].exc = IF outcome = "ok" THEN "" ELSE "GoogleCloudError",
                         !.inv[f].pc = AfterInsert(outcome)]
    /\ UNCHANGED Rest

\* the MERGE from the temporary table into the target succeeds or fails
MergeRows(f) ==
    /\ bq.inv[f].pc = "merge"
    /\ \E outcome \in {"ok", "fails"} :
        bq' = [bq EXCEPT !.inv[f].merged = outcome,
                         !.inv[f].touched = @ \cup Owners(bq.temp, bq.inv[f].temp_table_ref),
                         !.inv[f].exc = IF outcome = "ok" THEN "" ELSE "GoogleCloudError",
                         !.inv[f].pc = "finally"]
    /\ UNCHANGED Rest

\* the finally clause: delete_table, then the return of the row count or the
\* exception on its way out; an error of delete_table itself leaves the table
DeleteTable(f) ==
    /\ bq.inv[f].pc = "finally"
    /\ \E outcome \in {"ok", "fails"} :
        bq' = IF outcome = "ok"
              THEN [bq EXCEPT !.temp = {t \in @ : t.ref # bq.inv[f].temp_table_ref},
                              !.inv[f].deleted = "ok",
                              !.inv[f].touched =
                                  @ \cup Owners(bq.temp, bq.inv[f].temp_table_ref),
                              !.inv[f].ret = IF bq.inv[f].exc = "" THEN bq.inv[f].rows ELSE 0,
                              !.inv[f].pc = IF bq.inv[f].exc = "" THEN "returned" ELSE "raised"]
              ELSE [bq EXCEPT !.inv[f].deleted = "fails",
                              !.inv[f].exc = "GoogleCloudError",
                              !.inv[f].pc = "raised"]
    /\ UNCHANGED Rest

\* the caller takes the row count or the exception
LoadEnd(f) ==
    /\ bq.inv[f].pc \in {"returned", "raised"}
    /\ bq' = [bq EXCEPT !.inv[f] = NoInvocation]
    /\ UNCHANGED Rest

\* half a second passes
Tick ==
    /\ bq.now < MaxTick
    /\ bq' = [bq EXCEPT !.now = @ + 1]
    /\ UNCHANGED Rest

LoadBeginSome == \E f \in Invocations : LoadBegin(f)

CreateTableSome == \E f \in Invocations : CreateTable(f)

InsertRowsSome == \E f \in Invocations : InsertRows(f)

MergeRowsSome == \E f \in Invocations : MergeRows(f)

DeleteTableSome == \E f \in Invocations : DeleteTable(f)

LoadEndSome == \E f \in Invocations : LoadEnd(f)

NextLoad ==
    \/ LoadBeginSome
    \/ CreateTableSome
    \/ InsertRowsSome
    \/ MergeRowsSome
    \/ DeleteTableSome
    \/ LoadEndSome
    \/ Tick

SpecLoad == Init /\ [][NextLoad]_vars

(***************************************************************************)
(* Properties                                                              *)
(***************************************************************************)
LineDecoders ==
    {"parse_baa_line", "parse_kyf_line", "parse_sec_line", "parse_ukc_line",
     "parse_kka_line", "parse_kaa_line"}

\* the tags the dispatcher has a decoder for
MappedTags ==
    {TagBAA, TagBAB, TagBAC, TagKYF, TagKYG, TagKYH, TagSEC, TagUKC, TagKKA, TagKAA}

FileCall == call.op = "parse_file"

MappedFileCall == FileCall /\ Upper(call.tag) \in MappedTags

\* a record, its two audit timestamps aside
NoStamps(d) == [d EXCEPT !.v = [@ EXCEPT !.created_at = 0, !.updated_at = 0]]

\* the records returned, timestamps aside
Returned == [i \in 1..Len(result.ret.v) |-> NoStamps(result.ret.v[i])]

\* the lines the dispatcher iterates over
LoopLines == Split(Strip(call.text.v))

Count(lines, P(_)) == Cardinality({i \in 1..Len(lines) : P(lines[i])})

Occurrences(log, level) == Cardinality({i \in 1..Len(log) : log[i] = level})

\* the decoder of the call's tag, applied to one line alone
Alone(line) == Apply(parser_map(Upper(call.tag)), line, NoClock)

Decodes(line) == ~IsBlank(line) /\ Alone(line).ret.t = "dict"

\* the non-null results, in order, of decoding each non-blank line alone
RECURSIVE DecodeEach(_)
DecodeEach(lines) ==
    IF lines = <<>> THEN <<>>
    ELSE IF Decodes(Head(lines))
    THEN <<NoStamps(Alone(Head(lines)).ret)>> \o DecodeEach(Tail(lines))
    ELSE DecodeEach(Tail(lines))

\* C1: parse_file never raises, whatever the content and the tag; it
\* returns a list, and a line that fails takes no other line with it: the
\* list holds one record for every line that decodes.
C1_ParseFileNeverRaises ==
    FileCall =>
        /\ result.exc = ""
        /\ result.ret.t = "list"
        /\ MappedFileCall => Len(result.ret.v) = Count(LoopLines, Decodes)

\* a file in which one line failed and another line was decoded
C1_Witness ==
    /\ MappedFileCall
    /\ Occurrences(result.log, "ERROR") > 0
    /\ Len(result.ret.v) > 0

\* C2: for a mapped tag parse_file returns, in input order, exactly the
\* non-null results of decoding each non-blank line of the content split on
\* line breaks, each line decoded as it is decoded alone.
C2_LinesDecodedIndependently ==
    MappedFileCall =>
        /\ result.exc = ""
        /\ Returned = DecodeEach(Split(call.text.v))

IsShort(line) ==
    ~IsBlank(line) /\ Len(line) < MinLenOf(parser_map(Upper(call.tag)))

\* a line long enough for its format whose race key the decoder rejects
KeyRejected(line) ==
    LET race_key == Strip(Slice(line, 0, 8))
        decoder  == parser_map(Upper(call.tag))
    IN  /\ ~IsBlank(line)
        /\ ~IsShort(line)
        /\ \/ decoder = "parse_baa_line" /\ parse_race_id(race_key).exc # ""
           \/ decoder = "parse_kka_line" /\ int(Slice(race_key, 2, 4)).exc # ""

\* what the lines log when each is decoded alone, blank lines nothing
RECURSIVE LogOfEach(_)
LogOfEach(lines) ==
    IF lines = <<>> THEN <<>>
    ELSE IF IsBlank(Head(lines)) THEN LogOfEach(Tail(lines))
    ELSE Alone(Head(lines)).log \o LogOfEach(Tail(lines))

\* each short line yields no record and one warning, and the log of the
\* call holds what the non-blank lines logged, then the closing summary
ShortLinesWarnOnce ==
    /\ \A i \in 1..Len(LoopLines) :
           IsShort(LoopLines[i]) =>
               /\ Alone(LoopLines[i]).ret = PyNone
               /\ Alone(LoopLines[i]).log = <<"WARNING">>
    /\ result.log = LogOfEach(LoopLines) \o <<"INFO">>

C4_DecodersNeverRaise ==
    call.op \in LineDecoders =>
        /\ result.exc = ""
        /\ result.ret.t \in {"dict", "None"}

\* a decoder that caught the exception of a malformed race key
C4_Witness ==
    /\ call.op \in {"parse_baa_line", "parse_kka_line"}
    /\ Len(call.text.v) >= MinLenOf(call.op)
    /\ result.ret = PyNone
    /\ result.log = <<"ERROR">>

\* the minimum lengths as the formats document them
DocumentedMinLen ==
    [parse_baa_line |-> 90, parse_kyf_line |-> 170, parse_sec_line |-> 200,
     parse_ukc_line |-> 160, parse_kka_line |-> 280, parse_kaa_line |-> 40]

\* C5: a line shorter than its format's minimum length (90, 170, 200, 160,
\* 280, 40) is answered with None and a warning, without raising.
C5_ShortLineIsNone ==
    (call.op \in LineDecoders /\ Len(call.text.v) < DocumentedMinLen[call.op]) =>
        result = Logged(Ok(PyNone), "WARNING")

\* a meeting-condition line one character short of its minimum
C5_Witness ==
    /\ call.op = "parse_kaa_line"
    /\ Len(call.text.v) = DocumentedMinLen[call.op] - 1
    /\ result.ret = PyNone

\* C6: with a tag that has no decoder parse_file returns an empty list,
\* raises nothing and decodes no line: it logs its one warning only.
C6_UnknownTagIsEmpty ==
    (FileCall /\ Upper(call.tag) \notin MappedTags) =>
        result = Logged(Ok(PyList(<<>>)), "WARNING")

\* the tag ZZZ with a content that the race-program decoder would decode
C6_Witness ==
    /\ FileCall
    /\ call.tag = <<"Z", "Z", "Z">>
    /\ \E i \in 1..Len(LoopLines) :
           parse_kaa_line(LoopLines[i], NoClock).ret.t = "dict"
    /\ result.ret = PyList(<<>>)

\* C7: a decoder of a format that embeds a race key drops every line whose
\* race key is not 8 characters long: it returns None and raises nothing.
C7_MalformedKeyDropsLine ==
    (/\ call.op \in {"parse_baa_line", "parse_kyf_line", "parse_sec_line",
                     "parse_kka_line"}
     /\ Len(Strip(Slice(call.text.v, 0, 8))) # 8) =>
        /\ result.exc = ""
        /\ result.ret = PyNone

\* C8: parse_race_id fails on every key whose length is not 8 (the code's
\* ValueError "Invalid race key length"), and no other operation raises.
C8_OnlyKeyDecoderRaises ==
    /\ (call.op = "parse_race_id" /\ Len(call.text.v) # 8) =>
           /\ result.exc = "ValueError"
           /\ result.msg = "Invalid race key length"
    /\ call.op # "parse_race_id" => result.exc = ""

\* a key of 9 characters, all digits, refused
C8_Witness ==
    /\ call.op = "parse_race_id"
    /\ Len(call.text.v) = 9
    /\ \A i \in 1..9 : call.text.v[i] \in Digits
    /\ result.exc = "ValueError"

\* the two-digit year code of the key of the call, when it is one
YearCode == Slice(call.text.v, 2, 4)

\* C9: a year code y resolves to 2000+y for y in 0..50 and to 1900+y for y
\* in 51..99, and the year of every decoded key lies in 1951..2050.
C9_YearWindow ==
    (call.op = "parse_race_id" /\ result.exc = "") =>
        /\ (YearCode[1] \in Digits /\ YearCode[2] \in Digits) =>
               LET y == 10 * DigitVal(YearCode[1]) + DigitVal(YearCode[2])
               IN  result.ret.v.year = IF y <= 50 THEN 2000 + y ELSE 1900 + y
        /\ result.ret.v.year \in 1951..2050

\* what the text of the call denotes for the converter of the call
Denoted(t) == IF call.op = "safe_int" THEN int(t) ELSE float(t)

\* C10: safe_int and safe_float never raise; they return the default for
\* an empty or whitespace-only text and for a text that is no valid number
\* of their type, and otherwise the number the stripped text denotes.
C10_SafeConverters ==
    call.op \in {"safe_int", "safe_float"} =>
        /\ result.exc = ""
        /\ call.text.t = "str" =>
               LET t == Strip(call.text.v)
               IN  IF t = <<>> THEN result.ret = call.default
                   ELSE IF Denoted(t).exc # "" THEN result.ret = call.default
                   ELSE /\ result.ret = Denoted(t).ret
                        /\ result.ret.t = IF call.op = "safe_int" THEN "int" ELSE "float"

\* safe_int given the text of a decimal fraction and the default 0
C10_Witness ==
    /\ call.op = "safe_int"
    /\ call.text = PyStr(<<"1", ".", "5">>)
    /\ call.default = PyInt(0)
    /\ result.ret = PyInt(0)

\* the text is YYYYMMDD: eight digits that denote a calendar date
IsYMD8(t) ==
    /\ Len(t) = 8
    /\ \A i \in 1..8 : t[i] \in Digits
    /\ DecVal(SubSeq(t, 1, 4)) >= 1
    /\ DecVal(SubSeq(t, 5, 6)) \in 1..12
    /\ DecVal(SubSeq(t, 7, 8)) \in
           1..DaysIn(DecVal(SubSeq(t, 1, 4)), DecVal(SubSeq(t, 5, 6)))

\* YYYY-MM-DD of a text that is YYYYMMDD
IsoOf(t) == SubSeq(t, 1, 4) \o <<"-">> \o SubSeq(t, 5, 6) \o <<"-">> \o SubSeq(t, 7, 8)

\* C11: parse_date never raises; it returns YYYY-MM-DD for an 8-character
\* YYYYMMDD text that denotes a valid calendar date, and null for every
\* other input.
C11_ParseDate ==
    call.op = "parse_date" =>
        /\ result.exc = ""
        /\ IF call.text.t = "str" /\ IsYMD8(call.text.v)
           THEN result.ret = PyStr(IsoOf(call.text.v))
           ELSE result.ret = PyNone

\* the integer a 3-character sub-span denotes, null when it denotes none
CountOf(span) ==
    IF Strip(span) = <<>> \/ int(span).exc # "" THEN PyNone ELSE int(span).ret

AllNull == [win |-> PyNone, place |-> PyNone, show |-> PyNone, out |-> PyNone]

\* C12: the repeated-group decoder returns four nulls for a block shorter
\* than 12 characters; for a longer block each count is the integer of its
\* own 3-character sub-span, whatever the other sub-spans hold, and
\* "005003002010" gives 5, 3, 2, 10.
C12_RepeatedGroup ==
    call.op = "parse_zz9x4" =>
        /\ result.exc = ""
        /\ Len(call.text.v) < 12 => result.ret.v = AllNull
        /\ Len(call.text.v) >= 12 =>
               result.ret.v = [win   |-> CountOf(SubSeq(call.text.v, 1, 3)),
                               place |-> CountOf(SubSeq(call.text.v, 4, 6)),
                               show  |-> CountOf(SubSeq(call.text.v, 7, 9)),
                               out   |-> CountOf(SubSeq(call.text.v, 10, 12))]
        /\ call.text.v = FullBlock =>
               result.ret.v = [win |-> PyInt(5), place |-> PyInt(3),
                               show |-> PyInt(2), out |-> PyInt(10)]

\* a block whose second sub-span is lettered: place is null, the rest are not
C12_Witness ==
    /\ call.op = "parse_zz9x4"
    /\ call.text.v = <<"0", "0", "5", "0", "A", "0", "0", "0", "2", "0", "1", "0">>
    /\ result.ret.v = [win |-> PyInt(5), place |-> PyNone,
                       show |-> PyInt(2), out |-> PyInt(10)]

\* the value of a tenths-scaled field read from the 0-based span [a, b) of
\* the line of the call: a tenth of the integer the span denotes, or null
ScaledOf(a, b) ==
    IF Strip(Slice(call.text.v, a, b)) = <<>> \/ int(Slice(call.text.v, a, b)).exc # ""
         \/ int(Slice(call.text.v, a, b)).ret.v = 0
    THEN PyNone
    ELSE Normalise(int(Slice(call.text.v, a, b)).ret.v, 1)

\* C13: every tenths-scaled field of a horse-entry or race-result record is
\* a tenth of the integer of its span when that integer is not zero, and is
\* null, never 0.0, when the span is blank, unparseable or zero.
C13_TenthsScaled ==
    /\ (call.op = "parse_kyf_line" /\ result.ret.t = "dict") =>
           result.ret.v.weight_carried = ScaledOf(159, 162)
    /\ (call.op = "parse_sec_line" /\ result.ret.t = "dict") =>
           /\ result.ret.v.finish_time = ScaledOf(96, 100)
           /\ result.ret.v.weight_carried = ScaledOf(100, 103)
           /\ result.ret.v.winner_time_diff = ScaledOf(190, 193)
           /\ result.ret.v.front_3f_time = ScaledOf(193, 196)
           /\ result.ret.v.last_3f_time = ScaledOf(196, 199)

\* a race result with raw weight "550" and raw time " 000": 55.0 and null
C13_Witness ==
    /\ call.op = "parse_sec_line"
    /\ Slice(call.text.v, 100, 103) = <<"5", "5", "0">>
    /\ Slice(call.text.v, 96, 100) = <<" ", "0", "0", "0">>
    /\ result.ret.t = "dict"
    /\ result.ret.v.weight_carried = PyFloat(55, 0)
    /\ result.ret.v.finish_time = PyNone
    /\ result.ret.v.last_3f_time = PyFloat(55, 0)

BaaRecordCall == call.op = "parse_baa_line" /\ result.ret.t = "dict"

\* the grade-code and race-condition fields of the line of the call
GradeField == Slice(call.text.v, 35, 36)

ConditionField == Slice(call.text.v, 29, 31)

GradeLabel(g) ==
    CASE g = "1" -> <<"G", "1">>
      [] g = "2" -> <<"G", "2">>
      [] g = "3" -> <<"G", "3">>
      [] g = "5" -> <<"L", "i", "s", "t", "e", "d">>

\* C14 as stated: a grade code of 1, 2, 3 or 5 gives G1, G2, G3 or Listed
\* whatever the race condition is; only if the grade code is absent is
\* race_class Open for the race condition OP and otherwise the raw
\* race-condition string unchanged.
C14_Original ==
    BaaRecordCall =>
        /\ GradeField[1] \in {"1", "2", "3", "5"} =>
               result.ret.v.race_class = GradeLabel(GradeField[1])
        /\ Strip(GradeField) = <<>> =>
               result.ret.v.race_class =
                   IF ConditionField = <<"O", "P">> THEN <<"O", "p", "e", "n">>
                   ELSE ConditionField
        /\ (/\ Strip(GradeField) # <<>>
            /\ GradeField[1] \notin {"1", "2", "3", "5"}
            /\ ConditionField = <<"O", "P">>) =>
               result.ret.v.race_class # <<"O", "p", "e", "n">>

\* C14: a grade code of 1, 2, 3 or 5 gives G1, G2, G3 or Listed whatever the
\* race condition is; for every other grade code, absent or not, race_class
\* is Open when the race-condition field, surrounding whitespace removed,
\* is OP, and otherwise that field with surrounding whitespace removed.
C14_RaceClass ==
    BaaRecordCall =>
        IF GradeField[1] \in {"1", "2", "3", "5"}
        THEN result.ret.v.race_class = GradeLabel(GradeField[1])
        ELSE result.ret.v.race_class =
                 IF Strip(ConditionField) = <<"O", "P">> THEN <<"O", "p", "e", "n">>
                 ELSE Strip(ConditionField)

\* grade code 5 on a line whose race condition is OP: Listed, not Open
C14_Witness ==
    /\ BaaRecordCall
    /\ GradeField = <<"5">>
    /\ ConditionField = <<"O", "P">>
    /\ result.ret.v.race_class = <<"L", "i", "s", "t", "e", "d">>

\* an outcome, the two audit timestamps of its record aside
Untimed(out) ==
    IF out.ret.t = "dict" THEN [out EXCEPT !.ret = NoStamps(@)] ELSE out

\* the call repeats the one before: same decoder, same line
Repeated == call.op \in LineDecoders /\ prev # <<>>

ScenarioCall ==
    /\ call.op = "parse_baa_line"
    /\ Len(call.text.v) >= BAA_MIN_LEN
    /\ Slice(call.text.v, 0, 8) = GoodKey

\* the race class the precedence rule gives for the line of the call
ClassByRule ==
    IF GradeField[1] \in {"1", "2", "3", "5"} THEN GradeLabel(GradeField[1])
    ELSE IF Strip(ConditionField) = <<"O", "P">> THEN <<"O", "p", "e", "n">>
    ELSE Strip(ConditionField)

C19_TableNames ==
    call.op = "get_table_name" =>
        /\ call.tag \in {TagBAA, TagBAB, TagBAC} => result.ret = PyStr("race_info")
        /\ call.tag \in {TagKYF, TagKYG, TagKYH, TagSEC} =>
               result.ret = PyStr("horse_results")
        /\ call.tag = <<"I", "N", "V", "A", "L", "I", "D">> => result.ret = PyNone

\* the base name of the file name of the call, as the claim reads it
ClaimedBase == basename(call.text.v)

AsciiLetter(c) ==
    c \in AsciiUpper \cup {"a", "b", "c", "e", "s", "v", "z"}

\* C20 as stated: extract_data_type returns the upper-case tag exactly for
\* the file names whose base name is three letters, six digits and .csv,
\* and None for every other file name.
C20_Original ==
    call.op = "extract_data_type" =>
        IF /\ Len(ClaimedBase) = 13
           /\ \A i \in 1..3 : AsciiLetter(ClaimedBase[i])
           /\ \A i \in 4..9 : ClaimedBase[i] \in Digits
           /\ SubSeq(ClaimedBase, 10, 13) = <<".", "c", "s", "v">>
        THEN result.ret = PyStr(Upper(SubSeq(ClaimedBase, 1, 3)))
        ELSE result.ret = PyNone

\* the name is k letters, six digits and .csv, the case of letters ignored
TagDateCsv(name, k) ==
    /\ Len(name) = k + 10
    /\ \A i \in 1..k : UpperChar(name[i]) \in AsciiUpper
    /\ \A i \in 1..6 : name[k + i] \in Digits \cup {"U+FF11"}
    /\ Upper(SubSeq(name, k + 7, k + 10)) = <<".", "C", "S", "V">>

\* C20: extract_data_type returns the upper-cased tag exactly for the file
\* names whose base name, a single final line break aside, is a tag of two
\* or three letters followed by six decimal digits and the extension .csv,
\* letters of either case (tag and extension alike); it returns None for
\* every other file name.
C20_ExtractDataType ==
    call.op = "extract_data_type" =>
        /\ result.exc = ""
        /\ \A k \in {2, 3} :
               (\/ TagDateCsv(ClaimedBase, k)
                \/ /\ ClaimedBase # <<>>
                   /\ ClaimedBase[Len(ClaimedBase)] = NL
                   /\ TagDateCsv(SubSeq(ClaimedBase, 1, Len(ClaimedBase) - 1), k))
               => result.ret = PyStr(Upper(SubSeq(ClaimedBase, 1, k)))
        /\ result.ret # PyNone =>
               \E k \in {2, 3} :
                   \/ TagDateCsv(ClaimedBase, k)
                   \/ /\ ClaimedBase[Len(ClaimedBase)] = NL
                      /\ TagDateCsv(SubSeq(ClaimedBase, 1, Len(ClaimedBase) - 1), k)

\* a two-letter tag under a directory: the tag is returned
C20_Witness ==
    /\ call.op = "extract_data_type"
    /\ call.text.v = <<"B", "a", "a", "/", "O", "Z", "2", "6", "0", "1", "0", "4",
                       ".", "c", "s", "v">>
    /\ result.ret = PyStr(<<"O", "Z">>)

ProcessCall == call.op = "process_file"

\* the format tag of the file of the call, when its name carries one
NameTag == extract_data_type(call.tag)

\* parse_file yields no record for the file of the call
NothingParsed ==
    /\ NameTag # PyNone
    /\ parse_file(call.text.v, NameTag.v, NoClock).ret.v = <<>>

\* C17: when parse_file yields zero records for a file, process_file never
\* invokes load_to_bigquery for it and returns status failed, 0 records
\* processed and an error that is not null, never status success.
C17_NothingToLoad ==
    (ProcessCall /\ NothingParsed) =>
        /\ loads = <<>>
        /\ result.ret.v.status = "failed"
        /\ result.ret.v.records_processed = PyInt(0)
        /\ result.ret.v.error # PyNone

\* a race-program file that was fetched and holds no decodable line
C17_Witness ==
    /\ ProcessCall
    /\ call.tag = TagBAA \o NameTail
    /\ cloud = NoCloud
    /\ call.text.v # <<>>
    /\ NothingParsed
    /\ result.ret.v.error = PyStr("No data parsed")
    /\ loads = <<>>

CleanName(name) ==
    /\ \A i \in 1..Len(name) : name[i] # FWS
    /\ name # <<>> => (name[1] \notin Whitespace /\ name[Len(name)] \notin Whitespace)

\* the same for a name field that is a text or null
CleanField(field) == field.t = "str" => CleanName(field.v)

\* C21: no name field of a decoded record contains a full-width space,
\* wherever it stands in the span of the field, and none begins or ends
\* with ordinary whitespace.
C21_NamesWithoutFullWidthSpace ==
    result.ret.t = "dict" =>
        /\ call.op = "parse_baa_line" =>
               CleanName(result.ret.v.race_name) /\ CleanName(result.ret.v.venue_name)
        /\ call.op = "parse_kyf_line" =>
               CleanName(result.ret.v.horse_name) /\ CleanField(result.ret.v.jockey_name)
        /\ call.op \in {"parse_sec_line", "parse_ukc_line"} =>
               CleanField(result.ret.v.horse_name)
        /\ call.op = "parse_kaa_line" => CleanName(result.ret.v.venue_name)

\* the code held in the track-condition span of the line of the call
TrackCode == Strip(Slice(call.text.v, 51, 53))

\* C22: in a race-result record track_condition is the label the
\* track-condition table gives for the code held in the 2-character span of
\* the line, for the 1-digit codes padded with a space as for the 2-digit
\* codes, and null for a code the table lacks; nothing is raised.
C22_TrackCondition ==
    call.op = "parse_sec_line" =>
        /\ result.exc = ""
        /\ result.ret.t = "dict" =>
               result.ret.v.track_condition =
                   IF TrackCode \in DOMAIN TrackConditionTable
                   THEN PyStr(TrackConditionTable[TrackCode])
                   ELSE PyNone

\* TABLE_UNIQUE_KEYS of the table of a tag: the columns the upsert joins on
\* that the model's records carry
HasMergeKey(tag, row) ==
    CASE tag \in {TagBAA, TagBAB, TagBAC} -> row.race_id # <<>>
      [] tag \in {TagKYF, TagKYG, TagKYH, TagSEC, TagKKA} ->
             row.race_id # <<>> /\ row.horse_number # PyNone
      [] tag = TagUKC -> row.horse_id # <<>>
      [] tag = TagKAA -> row.venue_id # <<>>

Holds(b) == Len(call.text.v) >= b

\* the span [a, b) of the line of the call
Span(a, b) == Slice(call.text.v, a, b)

\* C26: a field guarded by a line-length test is decoded from its span
\* [a, b) whenever the line has at least b characters; it is null or empty
\* only when the line ends before position b.
C26_GuardedFields ==
    result.ret.t = "dict" =>
        /\ (call.op = "parse_kyf_line" /\ Holds(159)) =>
               result.ret.v.jockey_name = StrOrNone(Remove(Strip(Span(153, 159)), FWS))
        /\ (call.op = "parse_kyf_line" /\ Holds(162)) =>
               result.ret.v.weight_carried = Tenths(SafeInt(Span(159, 162)))
        /\ (call.op = "parse_sec_line" /\ Holds(199)) =>
               result.ret.v.last_3f_time = Tenths(SafeInt(Span(196, 199)))
        /\ (call.op = "parse_ukc_line" /\ Holds(160)) =>
               result.ret.v.data_date = parse_date(PyStr(Strip(Span(152, 160)))).ret
        /\ (call.op = "parse_kaa_line" /\ Holds(46)) =>
               result.ret.v.data_category = SafeInt(Span(45, 46))

\* C29: the venue_id of a meeting-condition record is the venue code, the
\* year code, the meeting number and the day character of the first six
\* characters of the line, concatenated; a line whose meeting-number
\* character is blank or no digit gives no record with a venue_id that
\* embeds a placeholder such as "None".
C29_VenueId ==
    (call.op = "parse_kaa_line" /\ result.ret.t = "dict") =>
        /\ Span(4, 5)[1] \in Digits
        /\ result.ret.v.venue_id =
               Strip(Span(0, 2)) \o Strip(Span(2, 4)) \o Span(4, 5) \o Strip(Span(5, 6))

\* the year, meeting, day and race-number characters of a key of 8 are digits
NumericKey(race_key) == \A i \in 3..8 : race_key[i] \in Digits

\* C30: for a key of exactly 8 characters parse_race_id returns a result
\* exactly when the year, meeting, day and race-number characters are
\* decimal digits and raises ValueError otherwise; parse_baa_line turns that
\* error into a dropped line, never into a record.
C30_KeyDigits ==
    /\ (call.op = "parse_race_id" /\ Len(call.text.v) = 8) =>
           /\ (result.exc = "") <=> NumericKey(call.text.v)
           /\ result.exc \in {"", "ValueError"}
    /\ (call.op = "parse_baa_line" /\ Len(call.text.v) >= 8
          /\ Len(Strip(Span(0, 8))) = 8 /\ ~NumericKey(Strip(Span(0, 8)))) =>
           /\ result.exc = ""
           /\ result.ret = PyNone

\* a call of _upload_file_with_retry is in progress or has returned
RetryCalled == up.ret # ""

\* the upload attempts that failed, among the first n
AllFailed(n) == \A k \in 1..n : ~up.outcomes[k]

\* what a call of _upload_file_with_retry has done so far
RetryBounded ==
    RetryCalled =>
        /\ Len(up.outcomes) <= up.max_retries
        /\ AllFailed(Len(up.outcomes) - 1)
        /\ up.ret = "running" => AllFailed(Len(up.outcomes))
        /\ up.ret = "True" => Len(up.outcomes) >= 1 /\ up.outcomes[Len(up.outcomes)]
        /\ up.ret = "False" => Len(up.outcomes) = up.max_retries /\ AllFailed(up.max_retries)
        /\ \A k \in 1..Len(up.waits) : up.waits[k] = 2 ^ (k - 1)
        /\ Len(up.waits) <= Len(up.outcomes)
        /\ Len(up.waits) < up.max_retries \/ up.max_retries = 0
        /\ up.ret \in {"True", "False"} =>
               Len(up.waits) = IF up.outcomes = <<>> THEN 0 ELSE Len(up.outcomes) - 1

\* C23: _upload_file_with_retry terminates after at most max_retries upload
\* attempts: it returns True at the first attempt that succeeds and tries no
\* more, returns False only after exactly max_retries attempts that all
\* failed, and waits 2^attempt seconds between attempts only, never after
\* the last one.
C23_RetryTerminates ==
    /\ []RetryBounded
    /\ (up.ret = "running") ~> (up.ret \in {"True", "False"})

C23_Witness ==
    /\ up.op = "_upload_file_with_retry"
    /\ up.max_retries = 3
    /\ up.ret = "False"
    /\ up.outcomes = <<FALSE, FALSE, FALSE>>
    /\ up.waits = <<1, 2>>

\* upload_directory has returned its counts
DirectoryResult == up.op = "upload_directory" /\ up.pc = "done" /\ up.exc = ""

\* the positions of the supported files among the entries of the directory
SupportedAt ==
    {k \in 1..Len(up.listing) :
        /\ up.listing[k].is_file
        /\ Lower(up.listing[k].suffix) \in SUPPORTED_EXTENSIONS}

\* the files whose content hash equals the hash of the copy in the bucket
SameHash(f) == f.blob = f.md5

\* the files of the walk that are to be skipped, uploaded, or have failed
ToSkip == {k \in 1..Len(up.files) : ~up.force /\ SameHash(up.files[k])}

Done ==
    {k \in 1..Len(up.files) : k \notin ToSkip /\ (up.dry_run \/ up.log[k].ok)}

Lost ==
    {k \in 1..Len(up.files) : k \notin ToSkip /\ ~up.dry_run /\ ~up.log[k].ok}

\* C24: upload_directory accounts for every supported file exactly once: a
\* file is skipped, with no upload attempted, exactly when force is false
\* and its content hash equals the remote copy's; every other file is
\* counted as uploaded (its upload succeeded, or the run is a dry run, which
\* makes no upload call) or as failed; the three counts add up to the total.
C24_Accounting ==
    DirectoryResult =>
        /\ up.total_files = Cardinality(SupportedAt)
        /\ Len(up.log) = up.total_files
        /\ up.skipped_files = Cardinality(ToSkip)
        /\ \A k \in ToSkip : up.log[k].calls = 0
        /\ up.uploaded_files = Cardinality(Done)
        /\ up.failed_files = Cardinality(Lost)
        /\ \A k \in Done : up.dry_run <=> up.log[k].calls = 0
        /\ \A k \in Lost : up.log[k].calls = max_retries_default
        /\ up.total_files = up.uploaded_files + up.skipped_files + up.failed_files

C24_Witness ==
    /\ DirectoryResult
    /\ ~up.force
    /\ ~up.dry_run
    /\ Len(up.listing) = 2
    /\ up.skipped_files = 1
    /\ up.failed_files = 1

\* the invocation has returned or raised
Finished(f) == bq.inv[f].pc \in {"returned", "raised"}

\* the temporary table the invocation created still exists
TempLeft(f) == f \in Owners(bq.temp, bq.inv[f].temp_table_ref)

InFlight(f) == bq.inv[f].pc \in {"create", "insert", "merge", "finally"}

\* C28: invocations of load_to_bigquery that run at the same time for one
\* target table use temporary tables of their own: no two invocations in
\* flight have the same temporary table name, and no invocation inserts
\* into, merges from or deletes a temporary table of another invocation.
C28_OwnTempTable ==
    \A f \in Invocations :
        /\ bq.inv[f].touched \subseteq {f}
        /\ \A g \in Invocations \ {f} :
               (InFlight(f) /\ InFlight(g) /\ bq.inv[f].table_id = bq.inv[g].table_id) =>
                   bq.inv[f].temp_table_ref # bq.inv[g].temp_table_ref

====
